---- MODULE Spec2Model ----
(***************************************************************************)
(* Model of the zero-trust bus of zero_trust_research/                     *)
(* zero_trust_architecture.py: CognitivePacket, Message, AutisticVerifier, *)
(* ConsensusMonitor, CryptographicValidator and ZeroTrustBus; of the       *)
(* signature service of zero_trust_research/crypto/signing.py; and of      *)
(* BusDaemon.process_message of bus/bus_daemon.py.                         *)
(*                                                                         *)
(* Strings are Python strings and \o is Python string concatenation, so    *)
(* the f-strings of the source are modelled by what they do.  SHA-256 and  *)
(* Ed25519 are modelled symbolically: a digest is the text it was made of  *)
(* (no collisions), a signature names the private key and the text signed  *)
(* (no forgery).                                                           *)
(***************************************************************************)
EXTENDS Integers, Sequences, FiniteSets, TLC

VARIABLES
    now,                 \* time.time(), in seconds
    crypto_available,    \* CRYPTO_AVAILABLE: whether the cryptography import succeeded
    component_registry,  \* ZeroTrustBus.component_registry (dict)
    message_buffers,     \* ZeroTrustBus.message_buffers (dict of lists)
    nonce_history,       \* ZeroTrustBus.nonce_history (set)
    flags,               \* AutisticVerifier.flags (list)
    pattern_violations,  \* AutisticVerifier.pattern_violations (list)
    bypass_attempts,     \* ConsensusMonitor.bypass_attempts (list)
    pc,                  \* per thread: where it stands inside validate_packet
    frame,               \* per thread: the packet and locals of its validate_packet call
    accepted,            \* history: the (sender_id, nonce, timestamp) of every acceptance
    calls,               \* history: number of submissions made so far
    last,                \* history: the latest submission and what it returned
    monitor_log,         \* history: every check_bypass_attempt call and what it returned
    signed_payload,      \* signing: the payload dict handed to sign_message
    signer_key,          \* signing: the private key handed to sign_message
    signature_obj,       \* signing: the Signature object the caller holds
    verify_outcome,      \* signing: the verify_signature call just made and how it ended
    stats,               \* BusDaemon.stats (without start_time)
    inbox,               \* the files in BusDaemon.inbox_dir
    outbox,              \* the files in BusDaemon.outbox_dir, by name
    archive,             \* the files in the archive directory
    processing_result,   \* history: the latest process_message call and its ProcessingResult
    escaped,             \* history: number of process_message calls that raised
    poller_pc,           \* where BusDaemon.run stands: startup loop, between polls, in a poll
    processed_files,     \* BusMessagePoller.processed_files (set of names)
    current_files,       \* check_for_messages: the names seen in the poll under way
    poll_queue,          \* the files the loop under way has still to visit
    sizes,               \* st_size of every file in the inbox
    writing,             \* the inbox files their sender has not finished writing
    handed,              \* history: the files handed to process_message since they came in
    routing_call,        \* scheduler: the latest route_message call and how it ended
    wire_call            \* wire format: the latest to_json_packet/from_json_packet trip

vars == <<now, crypto_available, component_registry, message_buffers, nonce_history,
          flags, pattern_violations, bypass_attempts, pc, frame, accepted, calls, last,
          monitor_log, signed_payload, signer_key, signature_obj, verify_outcome,
          stats, inbox, outbox, archive, processing_result, escaped,
          poller_pc, processed_files, current_files, poll_queue, sizes, writing,
          handed, routing_call, wire_call>>

\* the state of the ConsensusMonitor, which no bus method reads or writes
monitor_vars == <<bypass_attempts, monitor_log>>

\* the caller's side of the signature service, which holds no state itself
signing_vars == <<signed_payload, signer_key, signature_obj, verify_outcome>>

\* the callers of SchedulerExpert.route_message and of the wire format, which
\* hold no state themselves
caller_vars == <<routing_call, wire_call>>

\* the state of BusDaemon.run and its BusMessagePoller
poller_vars == <<poller_pc, processed_files, current_files, poll_queue, sizes, writing,
                 handed>>

\* the state of the BusDaemon around its ZeroTrustBus
daemon_vars == <<stats, inbox, outbox, archive, processing_result, escaped,
                 poller_vars>>

----------------------------------------------------------------------------
(* Bounds of the model *)

MaxCalls == 2
MaxAttempts == 3

(* Program constants *)

FreshnessWindow == 300
attack_threshold == 3
AttackWindow == 3600

(* Input domains *)

ClockValues == {303, 304}
HourClockValues == {3902, 3903}
Nonces == {"c", "bc"}
PrivateKeys == {"k1", "k2"}
PreCreatedBuffers == {"claude_code", "claude_main", "openai"}
Threads == {"t1", "t2"}

----------------------------------------------------------------------------
(* CognitivePacket: the fields the bus reads.  response_format, context,   *)
(* batch_id, component_type, specialization, processing_mode and           *)
(* protocol_version are carried by the dataclass and read by nothing but   *)
(* to_json_packet.                                                         *)

CognitivePacket(sender_id, content, timestamp, nonce) ==
    [message_type |-> "execute", content |-> content,
     routing_path |-> <<"claude_code">>, priority |-> "normal",
     consensus_required |-> FALSE, resource_cost |-> "low",
     sender_id |-> sender_id, trust_level |-> "provisional",
     constitutional_flags |-> <<>>, signature |-> "",
     packet_id |-> "p1", timestamp |-> timestamp, nonce |-> nonce]

NoPacket == CognitivePacket("", "", 0, "")

\* f"{packet.timestamp}" of a float holding a whole number of seconds
FormatFloat(t) == ToString(t) \o ".0"

\* hashlib.sha256(text.encode()).hexdigest()
SHA256(text) == "sha256(" \o text \o ")"

\* private_key.public_key().public_bytes(Raw, Raw)
PublicKeyBytes(private_key) == "pub_" \o private_key

sign_packet_content(private_key, packet_content) ==
    IF ~crypto_available \/ private_key = "mock_private_key"
    THEN "mock_signature_" \o SHA256(packet_content)
    ELSE "ed25519(" \o private_key \o "," \o packet_content \o ")"

verify_signature(public_key_bytes, signature_hex, content) ==
    IF ~crypto_available
    THEN signature_hex = "mock_signature_" \o SHA256(content)
    ELSE \E k \in PrivateKeys :
            /\ PublicKeyBytes(k) = public_key_bytes
            /\ signature_hex = "ed25519(" \o k \o "," \o content \o ")"

validate_structure(packet) ==
    /\ packet.packet_id # ""
    /\ packet.sender_id # ""
    /\ packet.message_type # ""
    /\ packet.content # ""
    /\ packet.timestamp # 0
    /\ packet.signature # ""

signable_content(packet) ==
    packet.sender_id \o packet.content \o FormatFloat(packet.timestamp) \o packet.nonce

Signed(packet, private_key) ==
    [packet EXCEPT !.signature = sign_packet_content(private_key, signable_content(packet))]

\* CognitivePacket.__post_init__ for a packet built with a routing_path and
\* no constitutional_flags; uuid stands for str(uuid.uuid4()), and the 16
\* hex digits kept of the digest stand for it
__post_init__(packet, uuid) ==
    LET packet_id == IF packet.packet_id = "" THEN uuid ELSE packet.packet_id
        timestamp == IF packet.timestamp = 0 THEN now ELSE packet.timestamp
    IN [packet EXCEPT
          !.packet_id = packet_id,
          !.timestamp = timestamp,
          !.nonce = IF packet.nonce = ""
                    THEN SHA256(packet_id \o FormatFloat(timestamp))
                    ELSE packet.nonce]

\* the legacy Message dataclass
Message(sender_id, receiver_id, content_reference, timestamp, nonce, signature) ==
    [sender_id |-> sender_id, receiver_id |-> receiver_id,
     message_type |-> "verification_request",
     content_reference |-> content_reference, timestamp |-> timestamp,
     nonce |-> nonce, signature |-> signature]

to_cognitive_packet(message, uuid) ==
    __post_init__(
        [CognitivePacket(message.sender_id, message.content_reference,
                         message.timestamp, message.nonce)
            EXCEPT !.message_type = message.message_type,
                   !.signature = message.signature,
                   !.routing_path = <<message.receiver_id>>,
                   !.packet_id = ""],
        uuid)

----------------------------------------------------------------------------
(* Python dicts are functions; dict.get(key, default) *)

EmptyDict == [k \in {} |-> k]

DictGet(dict, key, default) == IF key \in DOMAIN dict THEN dict[key] ELSE default

DictPut(dict, key, value) ==
    [k \in DOMAIN dict \cup {key} |-> IF k = key THEN value ELSE dict[k]]

Abs(x) == IF x < 0 THEN -x ELSE x

----------------------------------------------------------------------------
(* AutisticVerifier *)

\* bus_registry is the bus's own component_registry object (line 369)
get_sender_info(sender_id) ==
    IF DOMAIN component_registry # {}
    THEN DictGet(component_registry, sender_id, EmptyDict)
    ELSE EmptyDict

\* str(context)[:200]: the dataclass repr, cut after consensus_required
ContextDigest(packet) ==
    [message_type |-> packet.message_type, content |-> packet.content,
     routing_path |-> packet.routing_path, priority |-> packet.priority,
     consensus_required |-> packet.consensus_required]

\* mutant: the replay flag is not recorded
flag_violation_Suppressed(ledger, reason, context) ==
    IF reason = "Nonce reuse detected"
    THEN ledger
    ELSE Append(ledger, [timestamp |-> now, reason |-> reason,
                         context |-> ContextDigest(context),
                         verifier_id |-> "primary_verifier"])

\* mutant: the newest flag is put first
flag_violation_Prepend(ledger, reason, context) ==
    <<[timestamp |-> now, reason |-> reason,
       context |-> ContextDigest(context),
       verifier_id |-> "primary_verifier"]>> \o ledger

\* the ledger after flag_violation(reason, context)
flag_violation(ledger, reason, context) ==
    Append(ledger, [timestamp |-> now, reason |-> reason,
                    context |-> ContextDigest(context),
                    verifier_id |-> "primary_verifier"])

\* mutant: the registry is not consulted for a constitutional claim
verify_message_pattern_NoRegistryCheck(packet) ==
    IF ~validate_structure(packet)
    THEN "Missing required packet fields"
    ELSE IF Abs(packet.timestamp - now) > FreshnessWindow
    THEN "Timestamp outside acceptable window"
    ELSE IF /\ packet.trust_level = "constitutional_protected"
            /\ \A i \in DOMAIN packet.constitutional_flags :
                  packet.constitutional_flags[i] # "protected"
    THEN "Constitutional trust level without protection flag"
    ELSE "ok"

\* mutant: the window excludes exactly 300 seconds
verify_message_pattern_WindowExclusive(packet) ==
    IF Abs(packet.timestamp - now) >= FreshnessWindow
    THEN "Timestamp outside acceptable window"
    ELSE verify_message_pattern_NoRegistryCheck(packet)

\* "ok" when verify_message_pattern returns True, else the reason it flags
verify_message_pattern(packet) ==
    IF ~validate_structure(packet)
    THEN "Missing required packet fields"
    ELSE IF Abs(packet.timestamp - now) > FreshnessWindow
    THEN "Timestamp outside acceptable window"
    ELSE IF packet.trust_level = "constitutional_protected"
    THEN IF \A i \in DOMAIN packet.constitutional_flags :
                packet.constitutional_flags[i] # "protected"
         THEN "Constitutional trust level without protection flag"
         ELSE LET sender_info == get_sender_info(packet.sender_id) IN
              IF /\ DOMAIN sender_info # {}
                 /\ sender_info.trust_level # "constitutional_protected"
              THEN "Non-constitutional component claiming constitutional trust"
              ELSE "ok"
    ELSE "ok"

get_active_flags == flags

----------------------------------------------------------------------------
(* ZeroTrustBus *)

\* the entry register_component stores; public_key_hex, registered_at and
\* status are written there and read by no method
RegistryEntry(public_key_bytes, trust_level, constitutional_flags) ==
    [public_key_bytes |-> public_key_bytes, trust_level |-> trust_level,
     constitutional_flags |-> constitutional_flags]

\* mutant: a sender without registry entry is let through
_verify_packet_signature_UnknownPasses(packet) ==
    IF packet.sender_id \notin DOMAIN component_registry
    THEN TRUE
    ELSE verify_signature(component_registry[packet.sender_id].public_key_bytes,
                          packet.signature, signable_content(packet))

_verify_packet_signature(packet) ==
    IF packet.sender_id \notin DOMAIN component_registry
    THEN FALSE
    ELSE verify_signature(component_registry[packet.sender_id].public_key_bytes,
                          packet.signature, signable_content(packet))

\* mutant: the replay key is made of the time of the call
packet_hash_CurrentTime(packet) ==
    SHA256(packet.sender_id \o packet.nonce \o FormatFloat(now))

packet_hash(packet) ==
    SHA256(packet.sender_id \o packet.nonce \o FormatFloat(packet.timestamp))

\* mutant: the replay check runs before the signature check
validate_packet_ReplayFirst(packet) ==
    IF ~validate_structure(packet)
    THEN "malformed"
    ELSE IF packet_hash(packet) \in nonce_history
    THEN "Nonce reuse detected"
    ELSE IF ~_verify_packet_signature(packet)
    THEN "Invalid cryptographic signature"
    ELSE IF verify_message_pattern(packet) # "ok"
    THEN verify_message_pattern(packet)
    ELSE "accepted"

\* what validate_packet does with a packet: "malformed" (returns False, no
\* flag), the reason it flags before returning False, or "accepted"
validate_packet(packet) ==
    IF ~validate_structure(packet)
    THEN "malformed"
    ELSE IF ~_verify_packet_signature(packet)
    THEN "Invalid cryptographic signature"
    ELSE IF verify_message_pattern(packet) # "ok"
    THEN verify_message_pattern(packet)
    ELSE IF packet_hash(packet) \in nonce_history
    THEN "Nonce reuse detected"
    ELSE "accepted"

\* mutant: a risk score of exactly 0.5 counts as safe
apply_critical_reasoning_packet_SafeAtHalf(packet) ==
    LET risk_score == 1 + (IF packet.resource_cost = "critical" THEN 3 ELSE 0)
                        + (IF packet.priority = "emergency" THEN 2 ELSE 0)
                        + (IF packet.consensus_required THEN 1 ELSE 0)
    IN [safe |-> risk_score <= 5, risk_score |-> risk_score]

\* risk_score in tenths: 0.1, +0.3, +0.2, +0.1
apply_critical_reasoning_packet(packet) ==
    LET risk_score == 1 + (IF packet.resource_cost = "critical" THEN 3 ELSE 0)
                        + (IF packet.priority = "emergency" THEN 2 ELSE 0)
                        + (IF packet.consensus_required THEN 1 ELSE 0)
    IN [safe |-> risk_score < 5, risk_score |-> risk_score]

TwoDigits(n) == IF n < 10 THEN "0" \o ToString(n) ELSE ToString(n)

\* time.strftime("%Y-%m-%dT%H:%M:%S.%fZ", time.gmtime(t)) for t < 3600:
\* whole seconds, and %f is no directive of time.strftime
StrfTime(t) ==
    "1970-01-01T00:" \o TwoDigits(t \div 60) \o ":" \o TwoDigits(t % 60) \o ".%fZ"

to_json_packet(packet) ==
    [header |-> [packet_id |-> packet.packet_id,
                 timestamp |-> StrfTime(packet.timestamp)],
     layer_1_constitutional |->
        [signature |-> packet.signature, sender_id |-> packet.sender_id,
         trust_level |-> packet.trust_level,
         constitutional_flags |-> packet.constitutional_flags],
     layer_2_expert |-> [resource_cost |-> packet.resource_cost],
     layer_3_coordination |->
        [routing_path |-> packet.routing_path, priority |-> packet.priority,
         consensus_required |-> packet.consensus_required],
     layer_4_application |->
        [message_type |-> packet.message_type, content |-> packet.content]]

BufferRecord(packet) ==
    [cognitive_packet |-> to_json_packet(packet),
     reasoning |-> apply_critical_reasoning_packet(packet),
     routed_at |-> now]

\* mutant: the record is put at the head of the buffer
RECURSIVE FanOut_Prepend(_, _, _, _)
FanOut_Prepend(buffers, routing_path, i, record) ==
    IF i > Len(routing_path)
    THEN buffers
    ELSE LET receiver_id == routing_path[i] IN
         FanOut_Prepend(IF receiver_id \in DOMAIN buffers
                        THEN [buffers EXCEPT ![receiver_id] = <<record>> \o @]
                        ELSE buffers,
                        routing_path, i + 1, record)

\* the for loop of route_cognitive_packet over routing_path[i..]:
\* message_buffers.get(receiver_id, []).append(record)
RECURSIVE FanOut(_, _, _, _)
FanOut(buffers, routing_path, i, record) ==
    IF i > Len(routing_path)
    THEN buffers
    ELSE LET receiver_id == routing_path[i] IN
         FanOut(IF receiver_id \in DOMAIN buffers
                THEN [buffers EXCEPT ![receiver_id] = Append(@, record)]
                ELSE buffers,
                routing_path, i + 1, record)

get_component_buffer(component_id) == DictGet(message_buffers, component_id, <<>>)

get_verifier_status ==
    [verifier_id |-> "primary_verifier",
     active_flags |-> get_active_flags,
     total_violations |-> Len(pattern_violations),
     status |-> "protected"]

----------------------------------------------------------------------------
(* Inputs *)

\* (component_id, public_key_bytes, trust_level, constitutional_flags) of a
\* registration
Registrations ==
    {<<"a", PublicKeyBytes("k1"), "provisional", <<>>>>,
     <<"a", PublicKeyBytes("k1"), "constitutional_protected", <<"protected">>>>,
     <<"a", PublicKeyBytes("k2"), "provisional", <<>>>>,
     <<"ab", PublicKeyBytes("k1"), "provisional", <<>>>>}

\* packets as their sender builds them, signed with private key k1: the
\* timestamps lie 299, 300 and 301 seconds behind the clock values and 300
\* and 301 seconds ahead of them, and ("a", "bc") and ("ab", "c") concatenate
\* to the same text
HonestPackets ==
    {Signed(CognitivePacket("a", "x", 3, "c"), "k1"),
     Signed(CognitivePacket("a", "x", 4, "c"), "k1"),
     Signed(CognitivePacket("a", "x", 604, "c"), "k1"),
     Signed(CognitivePacket("a", "x", 3, "bc"), "k1"),
     Signed(CognitivePacket("ab", "x", 3, "c"), "k1")}

\* a signed packet with one field, or the trust claim, set after signing
Variants(q) ==
    {[q EXCEPT !.trust_level = "constitutional_protected",
               !.constitutional_flags = <<"protected">>],
     [q EXCEPT !.trust_level = "constitutional_protected"],
     [q EXCEPT !.routing_path = <<"claude_code", "ab">>],
     [q EXCEPT !.routing_path = <<>>],
     [q EXCEPT !.content = "x60"],
     [q EXCEPT !.signature = ""],
     [q EXCEPT !.signature = "zz"]}

Packets ==
    HonestPackets \cup
    Variants(Signed(CognitivePacket("a", "x", 3, "c"), "k1"))

\* legacy messages, signed with k1 over sender, content, timestamp and nonce
\* as the example of the source signs them; the last one leaves its nonce empty
Messages ==
    {Message("a", "claude_code", "x", 3, "bc",
             sign_packet_content("k1", "a" \o "x" \o FormatFloat(3) \o "bc")),
     Message("a", "claude_code", "x", 3, "",
             sign_packet_content("k1", "a" \o "x" \o FormatFloat(3) \o ""))}

\* packets two threads submit at the same time
ConcurrentPackets ==
    {Signed(CognitivePacket("a", "x", 3, n), "k1") : n \in Nonces}
    \cup {[Signed(CognitivePacket("a", "x", 3, "c"), "k1") EXCEPT !.signature = "zz"]}

----------------------------------------------------------------------------
(* State after ZeroTrustBus() *)

NoFrame == [packet |-> NoPacket, result |-> FALSE]

NoCall == [op |-> "none", packet |-> NoPacket, verdict |-> "none", result |-> FALSE]

\* no Signature object made yet
NoSignature ==
    [algorithm |-> "",
     signature_data |-> [padding |-> FALSE,
                         bytes |-> [length |-> 0, signer |-> "", message |-> ""]],
     public_key_id |-> "", timestamp |-> 0, key_fingerprint |-> ""]

NoOutcome == [payload |-> <<>>, signature |-> NoSignature, restored |-> FALSE,
              public_key |-> "None", result |-> "none"]

\* the signature service not in use
InitSigningIdle ==
    /\ signed_payload = <<>>
    /\ signer_key = ""
    /\ signature_obj = NoSignature
    /\ verify_outcome = NoOutcome

NoResult == [file |-> "", success |-> FALSE, status |-> "none", output_file |-> ""]

\* a JSON value in the place of additional_experts: its type, and its
\* elements (list), its keys (dict) or the expert names it spells (str)
JsonValue(type, items) == [type |-> type, items |-> items]

\* the content of a reply of the scheduler model: whether json.loads parses
\* it, whether it is an object, and what the object holds
LlmResponse(json, object, keys, additional_experts, requires_human_approval) ==
    [json |-> json, object |-> object, keys |-> keys,
     additional_experts |-> additional_experts,
     requires_human_approval |-> requires_human_approval]

NoRouting ==
    [message |-> <<>>,
     llm_response |-> LlmResponse(FALSE, FALSE, {}, JsonValue("list", <<>>), FALSE),
     outcome |-> "none", additional_experts |-> JsonValue("list", <<>>),
     requires_human_approval |-> FALSE]

NoTrip == [packet |-> NoPacket, outcome |-> "none", restored |-> NoPacket]

\* no route_message call and no wire trip made
InitCallersIdle ==
    /\ routing_call = NoRouting
    /\ wire_call = NoTrip

\* BusDaemon.run not started
InitPollerIdle ==
    /\ poller_pc = "idle"
    /\ processed_files = {}
    /\ current_files = {}
    /\ poll_queue = {}
    /\ sizes = EmptyDict
    /\ writing = {}
    /\ handed = {}

\* no BusDaemon around the bus
InitDaemonIdle ==
    /\ stats = [messages_processed |-> 0, messages_successful |-> 0,
                messages_failed |-> 0]
    /\ inbox = {}
    /\ outbox = EmptyDict
    /\ archive = {}
    /\ processing_result = NoResult
    /\ escaped = 0
    /\ InitPollerIdle

\* the bus after ZeroTrustBus()
InitBus ==
    /\ now = 303
    /\ crypto_available \in BOOLEAN
    /\ component_registry = EmptyDict
    /\ message_buffers = [b \in PreCreatedBuffers |-> <<>>]
    /\ nonce_history = {}
    /\ flags = <<>>
    /\ pattern_violations = <<>>
    /\ bypass_attempts = <<>>
    /\ monitor_log = <<>>
    /\ pc = [t \in Threads |-> "idle"]
    /\ frame = [t \in Threads |-> NoFrame]
    /\ accepted = {}
    /\ calls = 0
    /\ last = NoCall

Init == InitBus /\ InitSigningIdle /\ InitDaemonIdle /\ InitCallersIdle

----------------------------------------------------------------------------
(* Operations, one caller at a time *)

Tick ==
    /\ \E t \in ClockValues : t > now /\ now' = t
    /\ UNCHANGED <<monitor_vars, signing_vars, daemon_vars, caller_vars, crypto_available, component_registry, message_buffers,
                   nonce_history, flags, pattern_violations, pc, frame,
                   accepted, calls, last>>

register_component(component_id, public_key_bytes, trust_level, constitutional_flags) ==
    /\ component_registry' =
          DictPut(component_registry, component_id,
                  RegistryEntry(public_key_bytes, trust_level, constitutional_flags))
    /\ UNCHANGED <<monitor_vars, signing_vars, daemon_vars, caller_vars, now, crypto_available, message_buffers, nonce_history, flags,
                   pattern_violations, pc, frame, accepted, calls, last>>

RegisterComponent ==
    \E r \in Registrations : register_component(r[1], r[2], r[3], r[4])

ReplayTriple(packet) == <<packet.sender_id, packet.nonce, packet.timestamp>>

\* mutant: a replay rejection is flagged but not counted as a violation
ValidateEffects_ReplayUncounted(packet, verdict) ==
    /\ flags' = IF verdict \in {"malformed", "accepted"}
                THEN flags
                ELSE flag_violation(flags, verdict, packet)
    /\ pattern_violations' = IF verdict \in {"malformed", "accepted", "Nonce reuse detected"}
                             THEN pattern_violations
                             ELSE flag_violation(pattern_violations, verdict, packet)
    /\ nonce_history' = IF verdict = "accepted"
                        THEN nonce_history \cup {packet_hash(packet)}
                        ELSE nonce_history
    /\ accepted' = IF verdict = "accepted"
                   THEN accepted \cup {ReplayTriple(packet)}
                   ELSE accepted

\* the state validate_packet leaves behind when it ends with verdict
ValidateEffects(packet, verdict) ==
    /\ flags' = IF verdict \in {"malformed", "accepted"}
                THEN flags
                ELSE flag_violation(flags, verdict, packet)
    /\ pattern_violations' = IF verdict \in {"malformed", "accepted"}
                             THEN pattern_violations
                             ELSE flag_violation(pattern_violations, verdict, packet)
    /\ nonce_history' = IF verdict = "accepted"
                        THEN nonce_history \cup {packet_hash(packet)}
                        ELSE nonce_history
    /\ accepted' = IF verdict = "accepted"
                   THEN accepted \cup {ReplayTriple(packet)}
                   ELSE accepted

ValidatePacket ==
    \E packet \in Packets :
        LET verdict == validate_packet(packet) IN
        /\ calls < MaxCalls
        /\ ValidateEffects(packet, verdict)
        /\ calls' = calls + 1
        /\ last' = [op |-> "validate_packet", packet |-> packet,
                    verdict |-> verdict, result |-> verdict = "accepted"]
        /\ UNCHANGED <<monitor_vars, signing_vars, daemon_vars, caller_vars, now, crypto_available, component_registry, message_buffers,
                       pc, frame>>

\* mutant: a withheld envelope does not consume its nonce
route_cognitive_packet_NonceOnDelivery(op, packet) ==
    LET verdict == validate_packet(packet)
        reasoning_result == apply_critical_reasoning_packet(packet)
        delivered == verdict = "accepted" /\ reasoning_result.safe
    IN
    /\ calls < MaxCalls
    /\ ValidateEffects(packet, IF verdict = "accepted" /\ ~delivered
                               THEN "malformed" ELSE verdict)
    /\ message_buffers' = IF delivered
                          THEN FanOut(message_buffers, packet.routing_path, 1,
                                      BufferRecord(packet))
                          ELSE message_buffers
    /\ calls' = calls + 1
    /\ last' = [op |-> op, packet |-> packet, verdict |-> verdict,
                result |-> delivered]
    /\ UNCHANGED <<monitor_vars, signing_vars, daemon_vars, caller_vars, now, crypto_available, component_registry, pc, frame>>

route_cognitive_packet(op, packet) ==
    LET verdict == validate_packet(packet)
        reasoning_result == apply_critical_reasoning_packet(packet)
        delivered == verdict = "accepted" /\ reasoning_result.safe
    IN
    /\ calls < MaxCalls
    /\ ValidateEffects(packet, verdict)
    /\ message_buffers' = IF delivered
                          THEN FanOut(message_buffers, packet.routing_path, 1,
                                      BufferRecord(packet))
                          ELSE message_buffers
    /\ calls' = calls + 1
    /\ last' = [op |-> op, packet |-> packet, verdict |-> verdict,
                result |-> delivered]
    /\ UNCHANGED <<monitor_vars, signing_vars, daemon_vars, caller_vars, now, crypto_available, component_registry, pc, frame>>

RouteCognitivePacket ==
    \E packet \in Packets : route_cognitive_packet("route_cognitive_packet", packet)

\* route_message: the uuid of the converted packet is fresh for every call
RouteMessage ==
    \E message \in Messages :
        route_cognitive_packet("route_message",
                               to_cognitive_packet(message, "uuid" \o ToString(calls + 1)))

GetComponentBuffer ==
    /\ Len(get_component_buffer("claude_code")) >= 0
    /\ UNCHANGED vars

GetVerifierStatus ==
    /\ get_verifier_status.status = "protected"
    /\ UNCHANGED vars

Next ==
    \/ Tick
    \/ RegisterComponent
    \/ ValidatePacket
    \/ RouteCognitivePacket
    \/ RouteMessage
    \/ GetComponentBuffer
    \/ GetVerifierStatus

Spec == Init /\ [][Next]_vars

----------------------------------------------------------------------------
(* validate_packet called from several threads: one step per statement that *)
(* reads or writes the shared state.  list.append and set.add are atomic;   *)
(* nothing in the source makes two statements one step.                     *)

Return(t, result) ==
    /\ pc' = [pc EXCEPT ![t] = "returned"]
    /\ frame' = [frame EXCEPT ![t].result = result]

Goto(t, label) ==
    /\ pc' = [pc EXCEPT ![t] = label]
    /\ UNCHANGED frame

Flag(reason, packet) ==
    /\ flags' = flag_violation(flags, reason, packet)
    /\ pattern_violations' = flag_violation(pattern_violations, reason, packet)

T_Call(t) ==
    /\ pc[t] = "idle"
    /\ \E packet \in ConcurrentPackets :
          frame' = [frame EXCEPT ![t] = [packet |-> packet, result |-> FALSE]]
    /\ pc' = [pc EXCEPT ![t] = "structure"]
    /\ UNCHANGED <<monitor_vars, signing_vars, daemon_vars, caller_vars, now, crypto_available, component_registry, message_buffers,
                   nonce_history, flags, pattern_violations, accepted, calls, last>>

T_Structure(t) ==
    /\ pc[t] = "structure"
    /\ IF validate_structure(frame[t].packet)
       THEN Goto(t, "signature")
       ELSE Return(t, FALSE)
    /\ UNCHANGED <<monitor_vars, signing_vars, daemon_vars, caller_vars, now, crypto_available, component_registry, message_buffers,
                   nonce_history, flags, pattern_violations, accepted, calls, last>>

T_Signature(t) ==
    /\ pc[t] = "signature"
    /\ IF _verify_packet_signature(frame[t].packet)
       THEN Goto(t, "pattern") /\ UNCHANGED <<monitor_vars, flags, pattern_violations>>
       ELSE /\ Flag("Invalid cryptographic signature", frame[t].packet)
            /\ Return(t, FALSE)
    /\ UNCHANGED <<monitor_vars, signing_vars, daemon_vars, caller_vars, now, crypto_available, component_registry, message_buffers,
                   nonce_history, accepted, calls, last>>

T_Pattern(t) ==
    /\ pc[t] = "pattern"
    /\ LET reason == verify_message_pattern(frame[t].packet) IN
       IF reason = "ok"
       THEN Goto(t, "nonce_test") /\ UNCHANGED <<monitor_vars, flags, pattern_violations>>
       ELSE Flag(reason, frame[t].packet) /\ Return(t, FALSE)
    /\ UNCHANGED <<monitor_vars, signing_vars, daemon_vars, caller_vars, now, crypto_available, component_registry, message_buffers,
                   nonce_history, accepted, calls, last>>

\* if packet_hash in self.nonce_history
T_NonceTest(t) ==
    /\ pc[t] = "nonce_test"
    /\ IF packet_hash(frame[t].packet) \in nonce_history
       THEN /\ Flag("Nonce reuse detected", frame[t].packet)
            /\ Return(t, FALSE)
       ELSE Goto(t, "nonce_add") /\ UNCHANGED <<monitor_vars, flags, pattern_violations>>
    /\ UNCHANGED <<monitor_vars, signing_vars, daemon_vars, caller_vars, now, crypto_available, component_registry, message_buffers,
                   nonce_history, accepted, calls, last>>

\* self.nonce_history.add(packet_hash); return True
T_NonceAdd(t) ==
    /\ pc[t] = "nonce_add"
    /\ nonce_history' = nonce_history \cup {packet_hash(frame[t].packet)}
    /\ accepted' = accepted \cup {ReplayTriple(frame[t].packet)}
    /\ Return(t, TRUE)
    /\ UNCHANGED <<monitor_vars, signing_vars, daemon_vars, caller_vars, now, crypto_available, component_registry, message_buffers,
                   flags, pattern_violations, calls, last>>

NextConcurrent ==
    \/ Tick
    \/ RegisterComponent
    \/ \E t \in Threads :
          \/ T_Call(t)
          \/ T_Structure(t)
          \/ T_Signature(t)
          \/ T_Pattern(t)
          \/ T_NonceTest(t)
          \/ T_NonceAdd(t)

SpecConcurrent == Init /\ [][NextConcurrent]_vars

----------------------------------------------------------------------------
(* Routing: a verified sender, envelopes of every risk, several destinations *)

RoutingRegistrations ==
    {<<"a", PublicKeyBytes("k1"), "verified", <<"safe_implementation">>>>,
     <<"ab", PublicKeyBytes("k1"), "provisional", <<>>>>}

\* an execute envelope of the verified sender, signed, with these risk fields
RiskPacket(resource_cost, priority, consensus_required) ==
    [Signed(CognitivePacket("a", "x", 3, "c"), "k1") EXCEPT
        !.trust_level = "verified",
        !.constitutional_flags = <<"safe_implementation">>,
        !.resource_cost = resource_cost,
        !.priority = priority,
        !.consensus_required = consensus_required]

\* a low-risk envelope of the verified sender for these destinations
PathPacket(routing_path) ==
    [Signed(CognitivePacket("a", "x", 3, "bc"), "k1") EXCEPT
        !.trust_level = "verified",
        !.constitutional_flags = <<"safe_implementation">>,
        !.routing_path = routing_path]

RoutingPackets ==
    {RiskPacket(r, p, c) :
        r \in {"low", "critical"}, p \in {"normal", "emergency"}, c \in BOOLEAN}
    \cup {RiskPacket("high", "high", TRUE)}
    \cup {[RiskPacket("critical", "emergency", FALSE) EXCEPT !.signature = "zz"]}
    \cup {PathPacket(<<"claude_code", "openai">>),
          PathPacket(<<"claude_code", "ab">>),
          PathPacket(<<"ab">>)}

RegisterRouting ==
    \E r \in RoutingRegistrations : register_component(r[1], r[2], r[3], r[4])

RouteRoutingPacket ==
    \E packet \in RoutingPackets :
        route_cognitive_packet("route_cognitive_packet", packet)

NextRouting ==
    \/ Tick
    \/ RegisterRouting
    \/ RouteRoutingPacket
    \/ GetComponentBuffer

SpecRouting == Init /\ [][NextRouting]_vars

----------------------------------------------------------------------------
(* route_cognitive_packet called from several threads while consumers read  *)
(* the buffers: one step per buffer append.  validate_packet is taken as    *)
(* one step here; the steps inside it are those of SpecConcurrent.          *)

FanOutPackets ==
    {PathPacket(<<"claude_code", "openai">>),
     PathPacket(<<"claude_code", "ab">>),
     RiskPacket("low", "normal", FALSE),
     RiskPacket("critical", "emergency", FALSE)}

R_Call(t) ==
    /\ pc[t] = "idle"
    /\ \E packet \in FanOutPackets :
          frame' = [frame EXCEPT ![t] = [packet |-> packet, result |-> FALSE, i |-> 1]]
    /\ pc' = [pc EXCEPT ![t] = "validate"]
    /\ UNCHANGED <<monitor_vars, signing_vars, daemon_vars, caller_vars, now, crypto_available, component_registry, message_buffers,
                   nonce_history, flags, pattern_violations, accepted, calls, last>>

\* if not self.validate_packet(packet): return False
R_Validate(t) ==
    /\ pc[t] = "validate"
    /\ LET verdict == validate_packet(frame[t].packet) IN
       /\ ValidateEffects(frame[t].packet, verdict)
       /\ IF verdict = "accepted" THEN Goto(t, "reasoning") ELSE Return(t, FALSE)
    /\ UNCHANGED <<monitor_vars, signing_vars, daemon_vars, caller_vars, now, crypto_available, component_registry, message_buffers,
                   calls, last>>

\* reasoning_result = ...; if reasoning_result["safe"]: ... else return False
R_Reasoning(t) ==
    /\ pc[t] = "reasoning"
    /\ IF apply_critical_reasoning_packet(frame[t].packet).safe
       THEN Goto(t, "fanout")
       ELSE Return(t, FALSE)
    /\ UNCHANGED <<monitor_vars, signing_vars, daemon_vars, caller_vars, now, crypto_available, component_registry, message_buffers,
                   nonce_history, flags, pattern_violations, accepted, calls, last>>

\* one iteration of the for loop: a single append
R_Append(t) ==
    /\ pc[t] = "fanout"
    /\ frame[t].i <= Len(frame[t].packet.routing_path)
    /\ message_buffers' =
          FanOut(message_buffers, <<frame[t].packet.routing_path[frame[t].i]>>, 1,
                 BufferRecord(frame[t].packet))
    /\ frame' = [frame EXCEPT ![t].i = @ + 1]
    /\ UNCHANGED <<monitor_vars, signing_vars, daemon_vars, caller_vars, now, crypto_available, component_registry, nonce_history,
                   flags, pattern_violations, pc, accepted, calls, last>>

\* the loop is over: return True
R_Return(t) ==
    /\ pc[t] = "fanout"
    /\ frame[t].i > Len(frame[t].packet.routing_path)
    /\ Return(t, TRUE)
    /\ UNCHANGED <<monitor_vars, signing_vars, daemon_vars, caller_vars, now, crypto_available, component_registry, message_buffers,
                   nonce_history, flags, pattern_violations, accepted, calls, last>>

NextFanOut ==
    \/ Tick
    \/ RegisterRouting
    \/ GetComponentBuffer
    \/ \E t \in Threads :
          \/ R_Call(t)
          \/ R_Validate(t)
          \/ R_Reasoning(t)
          \/ R_Append(t)
          \/ R_Return(t)

SpecFanOut == Init /\ [][NextFanOut]_vars

----------------------------------------------------------------------------
(* ConsensusMonitor *)

\* check_bypass_attempt returns None
NoAlert == [alert_type |-> "None"]

issue_attack_alert(attempts) ==
    [alert_type |-> "consensus_attack_detected", timestamp |-> now,
     details |-> "Multiple attempts to bypass autistic verifier detected",
     attempts |-> attempts, severity |-> "critical"]

\* [a for a in self.bypass_attempts if time.time() - a["timestamp"] < 3600]
recent_attempts(attempts) ==
    SelectSeq(attempts, LAMBDA a : now - a.timestamp < AttackWindow)

\* mutant: an attempt is passed over while the flag ledger is not empty or an
\* attacker has no registry entry
check_bypass_attempt_Filtered(target_component, attempting_components) ==
    IF /\ Len(attempting_components) >= 2
       /\ target_component = "autistic_verifier"
       /\ flags = <<>>
       /\ \A i \in DOMAIN attempting_components :
             attempting_components[i] \in DOMAIN component_registry
    THEN LET attempts == Append(bypass_attempts,
                                [timestamp |-> now, target |-> target_component,
                                 attackers |-> attempting_components])
         IN [bypass_attempts |-> attempts,
             alert |-> IF Len(recent_attempts(attempts)) >= attack_threshold
                       THEN issue_attack_alert(recent_attempts(attempts))
                       ELSE NoAlert]
    ELSE [bypass_attempts |-> bypass_attempts, alert |-> NoAlert]

\* mutant: every call is recorded, whatever its target and attackers
check_bypass_attempt_RecordsAll(target_component, attempting_components) ==
    LET attempts == Append(bypass_attempts,
                           [timestamp |-> now, target |-> target_component,
                            attackers |-> attempting_components])
    IN IF Len(attempting_components) >= 2 /\ target_component = "autistic_verifier"
       THEN [bypass_attempts |-> attempts,
             alert |-> IF Len(recent_attempts(attempts)) >= attack_threshold
                       THEN issue_attack_alert(recent_attempts(attempts))
                       ELSE NoAlert]
       ELSE [bypass_attempts |-> attempts, alert |-> NoAlert]

\* check_bypass_attempt: the list it leaves in self.bypass_attempts and the
\* value it returns
check_bypass_attempt(target_component, attempting_components) ==
    IF Len(attempting_components) >= 2 /\ target_component = "autistic_verifier"
    THEN LET attempts == Append(bypass_attempts,
                                [timestamp |-> now, target |-> target_component,
                                 attackers |-> attempting_components])
         IN [bypass_attempts |-> attempts,
             alert |-> IF Len(recent_attempts(attempts)) >= attack_threshold
                       THEN issue_attack_alert(recent_attempts(attempts))
                       ELSE NoAlert]
    ELSE [bypass_attempts |-> bypass_attempts, alert |-> NoAlert]

\* (target_component, attempting_components) of a call
BypassInputs ==
    {<<"autistic_verifier", <<"a">>>>,
     <<"autistic_verifier", <<"ab">>>>,
     <<"autistic_verifier", <<"b">>>>,
     <<"autistic_verifier", <<"a", "a">>>>,
     <<"autistic_verifier", <<"a", "ab">>>>,
     <<"claude_code", <<"a", "ab">>>>}

\* one call of check_bypass_attempt
BypassCall(target_component, attempting_components) ==
    LET returned == check_bypass_attempt(target_component, attempting_components) IN
    /\ Len(monitor_log) < MaxAttempts
    /\ bypass_attempts' = returned.bypass_attempts
    /\ monitor_log' = Append(monitor_log,
                             [timestamp |-> now, target |-> target_component,
                              attackers |-> attempting_components,
                              alert |-> returned.alert])
    /\ UNCHANGED <<signing_vars, daemon_vars, caller_vars, now, crypto_available, component_registry,
                   message_buffers, nonce_history, flags, pattern_violations, pc, frame,
                   accepted, calls, last>>

CheckBypassAttempt ==
    \E input \in BypassInputs : BypassCall(input[1], input[2])

\* the clock moves on by about an hour
TickHour ==
    /\ \E t \in HourClockValues : t > now /\ now' = t
    /\ UNCHANGED <<monitor_vars, signing_vars, daemon_vars, caller_vars, crypto_available, component_registry,
                   message_buffers, nonce_history, flags, pattern_violations,
                   pc, frame, accepted, calls, last>>

NextMonitor ==
    \/ TickHour
    \/ CheckBypassAttempt

SpecMonitor == Init /\ [][NextMonitor]_vars

----------------------------------------------------------------------------
(* The monitor next to a bus in use: registrations and submissions change   *)
(* the registry, the nonce history and the flag ledger between the attempts *)

AttackInputs ==
    {<<"autistic_verifier", <<"a", "ab">>>>,
     <<"autistic_verifier", <<"a">>>>}

CheckBypassAttack ==
    \E input \in AttackInputs : BypassCall(input[1], input[2])

\* a valid envelope and one with a bad signature
SubmitDuringAttack ==
    \E packet \in {RiskPacket("low", "normal", FALSE),
                    [RiskPacket("low", "normal", FALSE) EXCEPT !.signature = "zz"]} :
        route_cognitive_packet("route_cognitive_packet", packet)

NextMonitorBus ==
    \/ TickHour
    \/ RegisterRouting
    \/ SubmitDuringAttack
    \/ CheckBypassAttack

SpecMonitorBus == Init /\ [][NextMonitorBus]_vars

----------------------------------------------------------------------------
(* Registrations with keys of any shape.  register_component takes what it  *)
(* is given: BusDaemon._register_components passes a text string, and       *)
(* generate_keypair without the cryptography package returns 21 bytes.      *)

\* f"mock_public_key_{component_id}" (bus_daemon.py, line 215)
mock_public_key(component_id) == "mock_public_key_" \o component_id

\* public_key_bytes is the 32 raw bytes of an Ed25519 public key
IsRawPublicKey(public_key_bytes) ==
    \E k \in PrivateKeys : public_key_bytes = PublicKeyBytes(k)

KeyRegistrations ==
    {<<"a", PublicKeyBytes("k1"), "provisional", <<>>>>,
     <<"a", mock_public_key("a"), "provisional", <<>>>>,
     <<"ab", "mock_public_key_bytes", "provisional", <<>>>>}

RegisterAnyKey ==
    \E r \in KeyRegistrations : register_component(r[1], r[2], r[3], r[4])

NextRegistry ==
    \/ Tick
    \/ RegisterAnyKey
    \/ ValidatePacket
    \/ GetVerifierStatus

SpecRegistry == Init /\ [][NextRegistry]_vars

----------------------------------------------------------------------------
(* validate_packet called from several threads, flag_violation taken apart: *)
(* the violation is appended to flags and then to pattern_violations, one   *)
(* list.append per step.  The clock stands still while the calls run.       *)

\* packets that raise every kind of flag: a bad signature, a timestamp 301
\* seconds ahead, and the same packet submitted twice
FlagPackets ==
    ConcurrentPackets \cup {Signed(CognitivePacket("a", "x", 604, "c"), "k1")}

F_Call(t) ==
    /\ pc[t] = "idle"
    /\ \E packet \in FlagPackets :
          frame' = [frame EXCEPT ![t] = [packet |-> packet, result |-> FALSE,
                                         reason |-> "none"]]
    /\ pc' = [pc EXCEPT ![t] = "structure"]
    /\ UNCHANGED <<monitor_vars, signing_vars, daemon_vars, caller_vars, now, crypto_available, component_registry, message_buffers,
                   nonce_history, flags, pattern_violations, accepted, calls, last>>

\* the caller of flag_violation(reason, packet): the call, then return False
F_Raise(t, reason) ==
    /\ pc' = [pc EXCEPT ![t] = "flag"]
    /\ frame' = [frame EXCEPT ![t].reason = reason]

F_Signature(t) ==
    /\ pc[t] = "signature"
    /\ IF _verify_packet_signature(frame[t].packet)
       THEN Goto(t, "pattern")
       ELSE F_Raise(t, "Invalid cryptographic signature")
    /\ UNCHANGED <<monitor_vars, signing_vars, daemon_vars, caller_vars, now, crypto_available, component_registry, message_buffers,
                   nonce_history, flags, pattern_violations, accepted, calls, last>>

F_Pattern(t) ==
    /\ pc[t] = "pattern"
    /\ LET reason == verify_message_pattern(frame[t].packet) IN
       IF reason = "ok" THEN Goto(t, "nonce_test") ELSE F_Raise(t, reason)
    /\ UNCHANGED <<monitor_vars, signing_vars, daemon_vars, caller_vars, now, crypto_available, component_registry, message_buffers,
                   nonce_history, flags, pattern_violations, accepted, calls, last>>

F_NonceTest(t) ==
    /\ pc[t] = "nonce_test"
    /\ IF packet_hash(frame[t].packet) \in nonce_history
       THEN F_Raise(t, "Nonce reuse detected")
       ELSE Goto(t, "nonce_add")
    /\ UNCHANGED <<monitor_vars, signing_vars, daemon_vars, caller_vars, now, crypto_available, component_registry, message_buffers,
                   nonce_history, flags, pattern_violations, accepted, calls, last>>

\* self.flags.append(violation)
F_FlagAppend(t) ==
    /\ pc[t] = "flag"
    /\ flags' = flag_violation(flags, frame[t].reason, frame[t].packet)
    /\ Goto(t, "violation")
    /\ UNCHANGED <<monitor_vars, signing_vars, daemon_vars, caller_vars, now, crypto_available, component_registry, message_buffers,
                   nonce_history, pattern_violations, accepted, calls, last>>

\* self.pattern_violations.append(violation), and the caller returns False
F_ViolationAppend(t) ==
    /\ pc[t] = "violation"
    /\ pattern_violations' =
          flag_violation(pattern_violations, frame[t].reason, frame[t].packet)
    /\ Return(t, FALSE)
    /\ UNCHANGED <<monitor_vars, signing_vars, daemon_vars, caller_vars, now, crypto_available, component_registry, message_buffers,
                   nonce_history, flags, accepted, calls, last>>

NextFlags ==
    \/ RegisterComponent
    \/ \E t \in Threads :
          \/ F_Call(t)
          \/ T_Structure(t)
          \/ F_Signature(t)
          \/ F_Pattern(t)
          \/ F_NonceTest(t)
          \/ T_NonceAdd(t)
          \/ F_FlagAppend(t)
          \/ F_ViolationAppend(t)

SpecFlags == Init /\ [][NextFlags]_vars

----------------------------------------------------------------------------
(* crypto/signing.py: the signature service.  A payload is a Python dict:   *)
(* a sequence of (name, value) pairs in insertion order, every name once.   *)
(* A value is a JSON scalar, given by its type and its text; the texts of   *)
(* the inputs hold no character that JSON escapes.  The raw bytes of an     *)
(* Ed25519 signature name the key and the message signed (no forgery), and  *)
(* a base64 text is the bytes it decodes to, or has no valid padding.       *)

JsonStr(text) == [type |-> "str", text |-> text]

JsonInt(n) == [type |-> "int", text |-> ToString(n)]

\* json.dumps of a scalar
JsonScalar(value) ==
    IF value.type = "str" THEN "\"" \o value.text \o "\"" ELSE value.text

\* json.dumps of a float holding a whole number of seconds
JsonFloat(t) == [type |-> "float", text |-> FormatFloat(t)]

\* the field names of the inputs in the order sorted() puts them
SortedNames ==
    <<"a", "b", "bus_status", "content_reference", "message_type", "nonce",
      "original_message_id", "original_receiver", "original_sender", "payload",
      "receiver_id", "response_type", "sender_id", "timestamp">>

Names(payload) == {payload[i][1] : i \in DOMAIN payload}

\* payload[name]
Item(payload, name) ==
    payload[CHOOSE i \in DOMAIN payload : payload[i][1] = name][2]

\* the items of json.dumps(payload, separators=(',', ':')) for these names
RECURSIVE JsonItems(_, _, _)
JsonItems(payload, names, i) ==
    IF i > Len(names)
    THEN ""
    ELSE (IF i > 1 THEN "," ELSE "")
            \o "\"" \o names[i] \o "\":" \o JsonScalar(Item(payload, names[i]))
            \o JsonItems(payload, names, i + 1)

\* mutant: json.dumps without sort_keys=True, the items in insertion order
_canonicalize_payload_InsertionOrder(payload) ==
    "{" \o JsonItems(payload, [i \in DOMAIN payload |-> payload[i][1]], 1) \o "}"

\* mutant: the values are written with str(), a text without its quotes
RECURSIVE PlainItems(_, _, _)
PlainItems(payload, names, i) ==
    IF i > Len(names)
    THEN ""
    ELSE (IF i > 1 THEN "," ELSE "")
            \o names[i] \o ":" \o Item(payload, names[i]).text
            \o PlainItems(payload, names, i + 1)

_canonicalize_payload_Unquoted(payload) ==
    PlainItems(payload, SelectSeq(SortedNames, LAMBDA n : n \in Names(payload)), 1)

\* json.dumps(payload, sort_keys=True, separators=(',', ':')).encode('utf-8')
_canonicalize_payload(payload) ==
    "{" \o JsonItems(payload,
                     SelectSeq(SortedNames, LAMBDA n : n \in Names(payload)), 1)
        \o "}"

\* a dict that is the value of a field: json.dumps writes it the same way
JsonDict(payload) == [type |-> "dict", text |-> _canonicalize_payload(payload)]

\* private_key.sign(message): 64 bytes
Ed25519Sign(key, message) == [length |-> 64, signer |-> key, message |-> message]

\* public_key.verify(signature_bytes, message) does not raise InvalidSignature
Ed25519Verify(public_key_bytes, signature_bytes, message) ==
    /\ signature_bytes.length = 64
    /\ PublicKeyBytes(signature_bytes.signer) = public_key_bytes
    /\ signature_bytes.message = message

b64encode(bytes) == [padding |-> TRUE, bytes |-> bytes]

\* base64.b64decode(data) raises binascii.Error
b64decode_raises(data) == ~data.padding

b64decode(data) == data.bytes

\* hashlib.sha256(public_key_bytes).hexdigest()[:16]
Fingerprint(public_key_bytes) == SHA256(public_key_bytes)

\* Signature.to_dict
to_dict(signature) ==
    IF signature.key_fingerprint # ""
    THEN [algorithm |-> signature.algorithm,
          signature_data |-> signature.signature_data,
          public_key_id |-> signature.public_key_id,
          timestamp |-> signature.timestamp,
          key_fingerprint |-> signature.key_fingerprint]
    ELSE [algorithm |-> signature.algorithm,
          signature_data |-> signature.signature_data,
          public_key_id |-> signature.public_key_id,
          timestamp |-> signature.timestamp]

\* Signature.from_dict; a missing fingerprint is None, which counts as empty
from_dict(data) ==
    [algorithm |-> data["algorithm"],
     signature_data |-> data["signature_data"],
     public_key_id |-> data["public_key_id"],
     timestamp |-> data["timestamp"],
     key_fingerprint |-> DictGet(data, "key_fingerprint", "")]

\* mutant: the fingerprint is taken of the key id
sign_message_FingerprintOfId(payload, private_key, public_key_id) ==
    [algorithm |-> "Ed25519",
     signature_data |->
        b64encode(Ed25519Sign(private_key, _canonicalize_payload(payload))),
     public_key_id |-> IF public_key_id = ""
                       THEN Fingerprint(PublicKeyBytes(private_key))
                       ELSE public_key_id,
     timestamp |-> now,
     key_fingerprint |-> Fingerprint(public_key_id)]

\* sign_message with a private key object; public_key_id "" stands for None
sign_message(payload, private_key, public_key_id) ==
    [algorithm |-> "Ed25519",
     signature_data |->
        b64encode(Ed25519Sign(private_key, _canonicalize_payload(payload))),
     public_key_id |-> IF public_key_id = ""
                       THEN Fingerprint(PublicKeyBytes(private_key))
                       ELSE public_key_id,
     timestamp |-> now,
     key_fingerprint |-> Fingerprint(PublicKeyBytes(private_key))]

\* the private key of the daemon, whose public key BusDaemon saves as
\* keys/bus_daemon.pub
daemon_private_key == "k2"

\* the public key files _auto_discover_public_key finds, by key id, when the
\* working directory is the daemon's base directory
KeyFiles == [id \in {"bus_daemon"} |-> PublicKeyBytes(daemon_private_key)]

\* None when no file is found
_auto_discover_public_key(public_key_id) == DictGet(KeyFiles, public_key_id, "None")

\* mutant: the fingerprint of the signature is not compared
signing_verify_signature_NoFingerprint(payload, signature, public_key) ==
    IF signature.algorithm # "Ed25519"
    THEN "False"
    ELSE LET public_key_obj == IF public_key = "None"
                               THEN _auto_discover_public_key(signature.public_key_id)
                               ELSE public_key
         IN IF public_key_obj = "None"
            THEN "VerificationError"
            ELSE IF b64decode_raises(signature.signature_data)
            THEN "VerificationError"
            ELSE IF Ed25519Verify(public_key_obj, b64decode(signature.signature_data),
                                  _canonicalize_payload(payload))
            THEN "True"
            ELSE "False"

\* mutant: signature data that cannot be decoded counts as a failed check
signing_verify_signature_DecodeFalse(payload, signature, public_key) ==
    IF signature.algorithm # "Ed25519"
    THEN "False"
    ELSE LET public_key_obj == IF public_key = "None"
                               THEN _auto_discover_public_key(signature.public_key_id)
                               ELSE public_key
         IN IF public_key_obj = "None"
            THEN "VerificationError"
            ELSE IF /\ signature.key_fingerprint # ""
                    /\ signature.key_fingerprint # Fingerprint(public_key_obj)
            THEN "False"
            ELSE IF b64decode_raises(signature.signature_data)
            THEN "False"
            ELSE IF Ed25519Verify(public_key_obj, b64decode(signature.signature_data),
                                  _canonicalize_payload(payload))
            THEN "True"
            ELSE "False"

\* verify_signature of crypto/signing.py with a public key object, or "None"
\* for public_key=None: "True", "False", or "VerificationError" when it raises
signing_verify_signature(payload, signature, public_key) ==
    IF signature.algorithm # "Ed25519"
    THEN "False"
    ELSE LET public_key_obj == IF public_key = "None"
                               THEN _auto_discover_public_key(signature.public_key_id)
                               ELSE public_key
         IN IF public_key_obj = "None"
            THEN "VerificationError"
            ELSE IF /\ signature.key_fingerprint # ""
                    /\ signature.key_fingerprint # Fingerprint(public_key_obj)
            THEN "False"
            ELSE IF b64decode_raises(signature.signature_data)
            THEN "VerificationError"
            ELSE IF Ed25519Verify(public_key_obj, b64decode(signature.signature_data),
                                  _canonicalize_payload(payload))
            THEN "True"
            ELSE "False"

(* Inputs of the signature service *)

Payloads ==
    {<<<<"a", va>>, <<"b", vb>>>> :
        va \in {JsonInt(1), JsonStr("1")}, vb \in {JsonInt(1), JsonInt(2)}}
    \cup
    {<<<<"b", vb>>, <<"a", va>>>> :
        va \in {JsonInt(1), JsonStr("1")}, vb \in {JsonInt(1), JsonInt(2)}}

\* "" for a call without public_key_id
PublicKeyIds == {"", "bus_daemon"}

\* what a caller does to a Signature it holds: the attribute and its new value
Alterations ==
    {<<"algorithm", "INVALID_ALGORITHM">>,
     <<"key_fingerprint", "wrong_fingerprint">>,
     <<"key_fingerprint", "">>,
     <<"signature_data", [padding |-> FALSE,
                          bytes |-> [length |-> 0, signer |-> "", message |-> ""]]>>,
     <<"signature_data", b64encode([length |-> 3, signer |-> "", message |-> ""])>>}

InitSigning ==
    /\ InitBus
    /\ crypto_available
    /\ InitDaemonIdle
    /\ InitCallersIdle
    /\ signed_payload \in Payloads
    /\ signer_key \in PrivateKeys
    /\ signature_obj = NoSignature
    /\ verify_outcome = NoOutcome

bus_vars == <<now, crypto_available, component_registry, message_buffers, nonce_history,
              flags, pattern_violations, pc, frame, accepted, calls, last>>

SignMessage ==
    /\ \E public_key_id \in PublicKeyIds :
          signature_obj' = sign_message(signed_payload, signer_key, public_key_id)
    /\ verify_outcome' = NoOutcome
    /\ UNCHANGED <<monitor_vars, daemon_vars, caller_vars, bus_vars, signed_payload, signer_key>>

AlterSignature ==
    /\ signature_obj # NoSignature
    /\ \E change \in Alterations :
          signature_obj' = [signature_obj EXCEPT ![change[1]] = change[2]]
    /\ verify_outcome' = NoOutcome
    /\ UNCHANGED <<monitor_vars, daemon_vars, caller_vars, bus_vars, signed_payload, signer_key>>

\* verify_signature(payload, signature, public_key), on the Signature itself
\* or on Signature.from_dict(signature.to_dict())
VerifySignature ==
    /\ signature_obj # NoSignature
    /\ \E payload \in Payloads, restored \in BOOLEAN,
          public_key \in {PublicKeyBytes(k) : k \in PrivateKeys} \cup {"None"} :
          LET signature == IF restored THEN from_dict(to_dict(signature_obj))
                                       ELSE signature_obj
          IN verify_outcome' =
                [payload |-> payload, signature |-> signature, restored |-> restored,
                 public_key |-> public_key,
                 result |-> signing_verify_signature(payload, signature, public_key)]
    /\ UNCHANGED <<monitor_vars, daemon_vars, caller_vars, bus_vars, signed_payload, signer_key,
                   signature_obj>>

NextSigning ==
    \/ SignMessage
    \/ AlterSignature
    \/ VerifySignature

SpecSigning == InitSigning /\ [][NextSigning]_vars

----------------------------------------------------------------------------
(* bus/bus_daemon.py: BusDaemon.process_message.  An inbox file is named    *)
(* by its stem, which is the message id; its text is JSON or not.  The      *)
(* daemon runs in its base directory, so that keys/bus_daemon.pub is the    *)
(* one key file key discovery finds.                                        *)

MaxMessages == 2

\* the components BusDaemon._register_components registers
DaemonComponents ==
    {"claude_main", "claude_code", "openai", "autistic_verifier", "guardian"}

\* the fields of the ComponentMessage dataclass without a default
ComponentMessageRequired ==
    {"message_id", "sender_id", "receiver_id", "message_type", "payload",
     "timestamp", "nonce"}

\* the keys Signature.from_dict reads with data[...]
SignatureRequired == {"algorithm", "signature_data", "public_key_id", "timestamp"}

\* the values of the MessageType enum
MessageTypes ==
    {"verification_request", "plan", "execute", "consensus_update",
     "health_report", "alert"}

\* the fields of the Message dataclass
MessageFields ==
    {"sender_id", "receiver_id", "message_type", "content_reference",
     "timestamp", "nonce", "signature"}

\* the keyword arguments process_message builds its Message with
bus_message_keywords ==
    {"sender_id", "receiver_id", "message_type", "content_reference",
     "timestamp", "nonce", "signature", "signature_obj"}

\* the dict process_message verifies the signature of a message over
message_payload(data) ==
    <<<<"sender_id", JsonStr(data.sender_id)>>,
      <<"receiver_id", JsonStr(data.receiver_id)>>,
      <<"message_type", JsonStr(data.message_type)>>,
      <<"payload", JsonDict(data.payload)>>,
      <<"timestamp", JsonFloat(data.timestamp)>>,
      <<"nonce", JsonStr(data.nonce)>>>>

\* valid_message_data of the daemon's tests with a message id and a
\* signature; the empty dict stands for "signature": null
valid_message_data(message_id, signature) ==
    [message_id |-> message_id, sender_id |-> "claude_main",
     receiver_id |-> "claude_code", message_type |-> "execute",
     payload |-> <<<<"content_reference", JsonStr("test_implementation_task")>>>>,
     timestamp |-> 303, nonce |-> "test_nonce_001", signature |-> signature]

\* fake_signature of test_bad_signature_processing
fake_signature ==
    [algorithm |-> "Ed25519",
     signature_data |-> [padding |-> FALSE,
                         bytes |-> [length |-> 0, signer |-> "", message |-> ""]],
     public_key_id |-> "test_key", timestamp |-> 303,
     key_fingerprint |-> "fake_fingerprint"]

\* the files a sender may put into the inbox
InboxFiles ==
    {"test_001", "test_002", "test_bad_sig_001", "signed_001", "forged_001",
     "not_json"}

\* the text of a file: whether json.load parses it, and the dict it gives
FileText(file) ==
    CASE file = "test_001" ->
            [json |-> TRUE, data |-> valid_message_data("test_001", EmptyDict)]
      [] file = "test_002" ->
            [json |-> TRUE,
             data |-> [message_id |-> "test_002", sender_id |-> "unknown_component",
                       message_type |-> "execute",
                       payload |-> <<<<"content_reference", JsonStr("broken_message")>>>>,
                       timestamp |-> 303]]
      [] file = "test_bad_sig_001" ->
            [json |-> TRUE, data |-> valid_message_data("test_bad_sig_001", fake_signature)]
      [] file = "signed_001" ->
            [json |-> TRUE,
             data |-> valid_message_data(
                         "signed_001",
                         to_dict(sign_message(
                                    message_payload(valid_message_data("signed_001", EmptyDict)),
                                    daemon_private_key, "bus_daemon")))]
      [] file = "forged_001" ->
            [json |-> TRUE,
             data |-> valid_message_data(
                         "forged_001",
                         to_dict(sign_message(
                                    message_payload(valid_message_data("forged_001", EmptyDict)),
                                    "k1", "bus_daemon")))]
      [] OTHER -> [json |-> FALSE, data |-> EmptyDict]

\* ComponentMessage.from_dict(data), cls(**data), raises TypeError
ComponentMessage_raises(data) ==
    \/ ~(ComponentMessageRequired \subseteq DOMAIN data)
    \/ ~(DOMAIN data \subseteq ComponentMessageRequired \cup {"signature"})

\* component_message.signature; the dataclass default is None
MessageSignature(data) == DictGet(data, "signature", EmptyDict)

\* the first exception the try block of process_message raises before it
\* routes, "" when there is none
TryException(file) ==
    LET text == FileText(file)
        data == text.data
        signature == MessageSignature(data)
    IN IF file \notin inbox THEN "FileNotFoundError"
       ELSE IF ~text.json THEN "JSONDecodeError"
       ELSE IF ComponentMessage_raises(data) THEN "TypeError"
       ELSE IF DOMAIN signature # {} /\ ~(SignatureRequired \subseteq DOMAIN signature)
       THEN "KeyError"
       ELSE IF /\ DOMAIN signature # {}
               /\ signing_verify_signature(message_payload(data), from_dict(signature),
                                           "None") # "True"
       THEN "VerificationError"
       ELSE IF data.message_type \notin MessageTypes THEN "ValueError"
       ELSE IF ~(bus_message_keywords \subseteq MessageFields) THEN "TypeError"
       ELSE ""

\* bus_message.to_cognitive_packet() of the Message process_message builds
bus_packet(data) ==
    to_cognitive_packet(
        [Message(data.sender_id, data.receiver_id,
                 Item(data.payload, "content_reference").text,
                 data.timestamp, data.nonce, "legacy_field")
            EXCEPT !.message_type = data.message_type],
        "uuid_" \o data.message_id)

\* the file written to the outbox for a routed message: the response of
\* _generate_response, signed with the daemon's key
_generate_response(data) ==
    LET response ==
           [message_id |-> "bus_response_" \o data.message_id,
            sender_id |-> "bus_daemon", receiver_id |-> data.sender_id,
            message_type |-> "routing_response",
            payload |-> <<<<"original_message_id", JsonStr(data.message_id)>>,
                          <<"original_sender", JsonStr(data.sender_id)>>,
                          <<"original_receiver", JsonStr(data.receiver_id)>>,
                          <<"bus_status", JsonStr("routed_successfully")>>,
                          <<"response_type", JsonStr("bus_routing_confirmation")>>>>,
            timestamp |-> now,
            nonce |-> SHA256(data.message_id \o FormatFloat(now))]
    IN [error |-> "", message_id |-> response.message_id,
        sender_id |-> response.sender_id, receiver_id |-> response.receiver_id,
        message_type |-> response.message_type,
        signature |-> sign_message(message_payload(response), daemon_private_key,
                                   "bus_daemon")]

\* the file written to the outbox for a message that failed
error_response(error, message_id) ==
    [error |-> error, message_id |-> message_id, sender_id |-> "", receiver_id |-> "",
     message_type |-> "", signature |-> NoSignature]

\* mutant: the except branch does not count the message as failed
UpdateStats_ExceptUncounted(counts, status) ==
    [counts EXCEPT
       !.messages_successful = @ + (IF status = "routed_successfully" THEN 1 ELSE 0),
       !.messages_failed = @ + (IF status = "routing_failed" THEN 1 ELSE 0),
       !.messages_processed = @ + 1]

\* self.stats after a call that ended with status, "raised" for a call the
\* exception of which left process_message: each branch counts its own
\* outcome and the finally clause counts the call
UpdateStats(counts, status) ==
    [counts EXCEPT
       !.messages_successful = @ + (IF status = "routed_successfully" THEN 1 ELSE 0),
       !.messages_failed =
           @ + (IF status \in {"routing_failed", "processing_failed"} THEN 1 ELSE 0),
       !.messages_processed = @ + 1]

\* process_message(inbox_dir / (file + ".json")); outbox_writable tells
\* whether a file can be written to the outbox directory during the call
process_message(file, outbox_writable) ==
    LET data == FileText(file).data
        exception == TryException(file)
        packet == bus_packet(data)
        verdict == validate_packet(packet)
        routing_result ==
            /\ verdict = "accepted"
            /\ apply_critical_reasoning_packet(packet).safe
        status == IF ~outbox_writable THEN "raised"
                  ELSE IF exception # "" THEN "processing_failed"
                  ELSE IF routing_result THEN "routed_successfully"
                  ELSE "routing_failed"
        output_file == IF status = "routed_successfully"
                       THEN file \o "_response.json"
                       ELSE file \o "_error.json"
    IN
    /\ IF exception = ""
       THEN /\ ValidateEffects(packet, verdict)
            /\ message_buffers' =
                  IF routing_result
                  THEN FanOut(message_buffers, packet.routing_path, 1,
                              BufferRecord(packet))
                  ELSE message_buffers
       ELSE UNCHANGED <<flags, pattern_violations, nonce_history, accepted,
                        message_buffers>>
    /\ outbox' =
          CASE status = "raised" -> outbox
            [] status = "routed_successfully" ->
                  DictPut(outbox, output_file, _generate_response(data))
            [] status = "routing_failed" ->
                  DictPut(outbox, output_file, error_response("routing_failed", file))
            [] OTHER ->
                  DictPut(outbox, output_file, error_response("processing_failed", file))
    /\ inbox' = IF status = "routed_successfully" THEN inbox \ {file} ELSE inbox
    /\ archive' = IF status = "routed_successfully" THEN archive \cup {file} ELSE archive
    /\ stats' = UpdateStats(stats, status)
    /\ escaped' = IF status = "raised" THEN escaped + 1 ELSE escaped
    /\ processing_result' =
          IF status = "raised"
          THEN [file |-> file, success |-> FALSE, status |-> "raised", output_file |-> ""]
          ELSE [file |-> file, success |-> status = "routed_successfully",
                status |-> status, output_file |-> output_file]
    /\ UNCHANGED <<monitor_vars, signing_vars, caller_vars, now, crypto_available,
                   component_registry, pc, frame, calls, last>>

\* BusDaemon._register_components
RegisteredComponents ==
    [component_id \in DaemonComponents |->
        RegistryEntry(mock_public_key(component_id), "provisional", <<>>)]

\* the ZeroTrustBus of the daemon after BusDaemon(): the crypto build, five
\* components registered with their mock keys
InitDaemonBus ==
    /\ now = 303
    /\ crypto_available = TRUE
    /\ component_registry = RegisteredComponents
    /\ message_buffers = [b \in PreCreatedBuffers |-> <<>>]
    /\ nonce_history = {}
    /\ flags = <<>>
    /\ pattern_violations = <<>>
    /\ bypass_attempts = <<>>
    /\ monitor_log = <<>>
    /\ pc = [t \in Threads |-> "idle"]
    /\ frame = [t \in Threads |-> NoFrame]
    /\ accepted = {}
    /\ calls = 0
    /\ last = NoCall

\* the daemon after BusDaemon(), with empty directories
InitDaemon ==
    /\ InitDaemonBus
    /\ InitSigningIdle
    /\ InitDaemonIdle
    /\ InitCallersIdle

\* a sender writes a file into the inbox
PutMessage ==
    /\ \E file \in InboxFiles \ (inbox \cup archive) : inbox' = inbox \cup {file}
    /\ UNCHANGED <<monitor_vars, signing_vars, caller_vars, bus_vars, poller_vars, stats, outbox,
                   archive, processing_result, escaped>>

ProcessMessage ==
    /\ stats.messages_processed < MaxMessages
    /\ \E file \in InboxFiles, outbox_writable \in BOOLEAN :
          process_message(file, outbox_writable)
    /\ UNCHANGED poller_vars

NextDaemon ==
    \/ PutMessage
    \/ ProcessMessage

SpecDaemon == InitDaemon /\ [][NextDaemon]_vars

----------------------------------------------------------------------------
(* bus/bus_daemon.py: BusDaemon.run and BusMessagePoller.  The loops over   *)
(* inbox_dir.glob('*.json') are taken one file at a time, so that senders   *)
(* write and remove files between two iterations; the text of a file is     *)
(* read as FileText gives it whatever its size.                             *)

\* the files senders put into the inbox of the polling daemon
PollerFiles == {"test_002", "not_json"}

\* st_size of a file, in blocks
FileSizes == 0 .. 2

\* _is_file_ready of a file whose stat gave size1 and, 0.1 seconds later, size2
_is_file_ready(size1, size2) == size1 = size2 /\ size1 > 0

\* the sizes the second stat of file can give
SecondSizes(file) ==
    {sizes[file]} \cup (IF file \in writing /\ sizes[file] + 1 \in FileSizes
                        THEN {sizes[file] + 1}
                        ELSE {})

\* the daemon after BusDaemon() when run() is called: files may lie in the
\* inbox already, complete or empty
InitPoller ==
    /\ InitDaemonBus
    /\ InitSigningIdle
    /\ InitCallersIdle
    /\ stats = [messages_processed |-> 0, messages_successful |-> 0,
                messages_failed |-> 0]
    /\ inbox \in SUBSET PollerFiles
    /\ outbox = EmptyDict
    /\ archive = {}
    /\ processing_result = NoResult
    /\ escaped = 0
    /\ poller_pc = "startup"
    /\ processed_files = {}
    /\ current_files = {}
    /\ poll_queue = inbox
    /\ sizes \in [inbox -> {0, 1}]
    /\ writing = {}
    /\ handed = {}

client_vars == <<monitor_vars, signing_vars, caller_vars, bus_vars, stats, outbox, archive,
                 processing_result, escaped>>

\* a sender creates a file in the inbox
CreateFile ==
    /\ \E file \in PollerFiles \ inbox :
          /\ inbox' = inbox \cup {file}
          /\ sizes' = DictPut(sizes, file, 0)
          /\ writing' = writing \cup {file}
    /\ UNCHANGED <<client_vars, poller_pc, processed_files, current_files, poll_queue,
                   handed>>

\* the sender writes a block of it
WriteFile ==
    /\ \E file \in writing :
          /\ sizes[file] + 1 \in FileSizes
          /\ sizes' = [sizes EXCEPT ![file] = @ + 1]
    /\ UNCHANGED <<client_vars, inbox, writing, poller_pc, processed_files,
                   current_files, poll_queue, handed>>

\* the sender closes it
CloseFile ==
    /\ \E file \in writing : writing' = writing \ {file}
    /\ UNCHANGED <<client_vars, inbox, sizes, poller_pc, processed_files,
                   current_files, poll_queue, handed>>

\* somebody takes a file out of the inbox
RemoveFile ==
    /\ \E file \in inbox \ writing :
          /\ inbox' = inbox \ {file}
          /\ sizes' = [f \in DOMAIN sizes \ {file} |-> sizes[f]]
          /\ handed' = handed \ {file}
    /\ UNCHANGED <<client_vars, writing, poller_pc, processed_files, current_files,
                   poll_queue>>

\* self.process_message(file_path) called by run or by the poller
HandOver(file, outbox_writable) ==
    /\ stats.messages_processed < MaxMessages
    /\ process_message(file, outbox_writable)
    /\ handed' = IF file \in inbox THEN handed \cup {file} ELSE handed

\* run, lines 489-493: one iteration of the loop over the files found in
\* the inbox at startup; an exception of process_message ends run
StartupFile ==
    /\ poller_pc = "startup"
    /\ \E file \in poll_queue, outbox_writable \in BOOLEAN :
          /\ HandOver(file, outbox_writable)
          /\ IF outbox_writable
             THEN /\ processed_files' = processed_files \cup {file}
                  /\ poll_queue' = poll_queue \ {file}
                  /\ poller_pc' = poller_pc
             ELSE /\ processed_files' = processed_files
                  /\ poll_queue' = {}
                  /\ poller_pc' = "stopped"
    /\ UNCHANGED <<current_files, sizes, writing>>

\* run enters its polling loop
StartupEnd ==
    /\ poller_pc = "startup"
    /\ poll_queue = {}
    /\ poller_pc' = "idle"
    /\ UNCHANGED <<client_vars, inbox, processed_files, current_files, poll_queue, sizes,
                   writing, handed>>

\* check_for_messages is called and lists the inbox
PollStart ==
    /\ poller_pc = "idle"
    /\ poller_pc' = "polling"
    /\ current_files' = {}
    /\ poll_queue' = inbox
    /\ UNCHANGED <<client_vars, inbox, processed_files, sizes, writing, handed>>

\* check_for_messages, lines 117-127: one iteration of its loop, on a file
\* that is known already or not ready
PollSkip ==
    /\ poller_pc = "polling"
    /\ \E file \in poll_queue :
          /\ current_files' = current_files \cup {file}
          /\ poll_queue' = poll_queue \ {file}
          /\ IF file \in processed_files \/ file \notin inbox
             THEN sizes' = sizes
             ELSE \E size2 \in SecondSizes(file) :
                     /\ ~_is_file_ready(sizes[file], size2)
                     /\ sizes' = [sizes EXCEPT ![file] = size2]
    /\ UNCHANGED <<client_vars, inbox, poller_pc, processed_files, writing, handed>>

\* check_for_messages, lines 117-127: one iteration of its loop, on a new
\* file that is ready; an exception of process_message ends the poll at
\* line 132, before the name is added and before the clean-up of line 130
PollFile ==
    /\ poller_pc = "polling"
    /\ \E file \in (poll_queue \cap inbox) \ processed_files,
          outbox_writable \in BOOLEAN :
          /\ _is_file_ready(sizes[file], sizes[file])
          /\ HandOver(file, outbox_writable)
          /\ IF outbox_writable
             THEN /\ processed_files' = processed_files \cup {file}
                  /\ current_files' = current_files \cup {file}
                  /\ poll_queue' = poll_queue \ {file}
                  /\ poller_pc' = poller_pc
             ELSE /\ processed_files' = processed_files
                  /\ current_files' = {}
                  /\ poll_queue' = {}
                  /\ poller_pc' = "idle"
    /\ UNCHANGED <<sizes, writing>>

\* check_for_messages, line 130: the names of files no longer listed are
\* forgotten
PollEnd ==
    /\ poller_pc = "polling"
    /\ poll_queue = {}
    /\ processed_files' = processed_files \cap current_files
    /\ current_files' = {}
    /\ poller_pc' = "idle"
    /\ UNCHANGED <<client_vars, inbox, poll_queue, sizes, writing, handed>>

NextPoller ==
    \/ CreateFile
    \/ WriteFile
    \/ CloseFile
    \/ RemoveFile
    \/ StartupFile
    \/ StartupEnd
    \/ PollStart
    \/ PollSkip
    \/ PollFile
    \/ PollEnd

SpecPoller == InitPoller /\ [][NextPoller]_vars

----------------------------------------------------------------------------
(* scheduler_expert.py: SchedulerExpert.route_message.  A message is the    *)
(* sequence of its words, joined by blanks; the reply of the scheduler      *)
(* model is whatever text the model chooses to send.                        *)

\* the words senders write
MessageWords == {"Implement", "SECURITY", "profile", "rapid", "System", "expert", "hello"}

\* str.lower() of a word
str_lower(text) ==
    CASE text = "Implement" -> "implement"
      [] text = "SECURITY" -> "security"
      [] text = "System" -> "system"
      [] OTHER -> text

\* the safeguard words that are substrings of a lower-case word
Substrings(text) ==
    CASE text = "implement" -> {"implement"}
      [] text = "security" -> {"security"}
      [] text = "profile" -> {"file"}
      [] text = "rapid" -> {"api"}
      [] text = "system" -> {"system"}
      [] text = "expert" -> {"expert"}
      [] OTHER -> {}

verifier_words == {"security", "implement", "modify", "change", "access"}

guardian_words == {"file", "network", "external", "api", "database"}

approval_words == {"system", "security", "constitutional", "expert", "architecture"}

\* any(word in message.lower() for word in words)
AnyWordIn(words, message) ==
    \E i \in DOMAIN message : Substrings(str_lower(message[i])) \cap words # {}

SchedulerMessages ==
    {<<w>> : w \in MessageWords} \cup {<<v, w>> : v, w \in MessageWords}

\* replies of the scheduler model: no JSON, a JSON list, objects with and
\* without the keys asked for, and objects whose additional_experts is not
\* a list
LlmResponses ==
    {LlmResponse(FALSE, FALSE, {}, JsonValue("list", <<>>), FALSE),
     LlmResponse(TRUE, FALSE, {}, JsonValue("list", <<>>), FALSE),
     LlmResponse(TRUE, TRUE, {}, JsonValue("list", <<>>), FALSE),
     LlmResponse(TRUE, TRUE, {"additional_experts", "requires_human_approval"},
                 JsonValue("list", <<>>), FALSE),
     LlmResponse(TRUE, TRUE, {"additional_experts", "requires_human_approval"},
                 JsonValue("list", <<"autistic_verifier">>), FALSE),
     LlmResponse(TRUE, TRUE, {"additional_experts", "requires_human_approval"},
                 JsonValue("list", <<"guardian", "left_brain">>), TRUE),
     LlmResponse(TRUE, TRUE, {"additional_experts"},
                 JsonValue("str", <<"autistic_verifier", "guardian">>), FALSE),
     LlmResponse(TRUE, TRUE, {"additional_experts"}, JsonValue("str", <<>>), FALSE),
     LlmResponse(TRUE, TRUE, {"additional_experts"},
                 JsonValue("dict", <<"autistic_verifier", "guardian">>), FALSE),
     LlmResponse(TRUE, TRUE, {"additional_experts"}, JsonValue("null", <<>>), FALSE)}

\* name in value, for a list, a str or a dict
PyIn(name, value) == \E i \in DOMAIN value.items : value.items[i] = name

\* a RoutingDecision under construction, or the exception that ended it
Decision(additional_experts, requires_human_approval, raised) ==
    [additional_experts |-> additional_experts,
     requires_human_approval |-> requires_human_approval, raised |-> raised]

\* if name not in decision.additional_experts:
\*     decision.additional_experts.append(name)
ForceExpert(decision, name) ==
    IF decision.raised # "" THEN decision
    ELSE IF decision.additional_experts.type = "null"
    THEN [decision EXCEPT !.raised = "TypeError"]
    ELSE IF PyIn(name, decision.additional_experts) THEN decision
    ELSE IF decision.additional_experts.type = "list"
    THEN [decision EXCEPT !.additional_experts.items = Append(@, name)]
    ELSE [decision EXCEPT !.raised = "AttributeError"]

_apply_constitutional_safeguards(decision, message) ==
    LET verified == IF AnyWordIn(verifier_words, message)
                    THEN ForceExpert(decision, "autistic_verifier")
                    ELSE decision
        guarded == IF AnyWordIn(guardian_words, message)
                   THEN ForceExpert(verified, "guardian")
                   ELSE verified
    IN IF guarded.raised = "" /\ AnyWordIn(approval_words, message)
       THEN [guarded EXCEPT !.requires_human_approval = TRUE]
       ELSE guarded

_conservative_fallback_routing ==
    Decision(JsonValue("list", <<"autistic_verifier", "guardian">>), TRUE, "")

\* route_message(message, sender, message_type) when query_scheduler_llm
\* returns llm_response
scheduler_route_message(message, llm_response) ==
    IF ~llm_response.json THEN _conservative_fallback_routing
    ELSE IF ~llm_response.object
    THEN Decision(JsonValue("list", <<>>), FALSE, "AttributeError")
    ELSE _apply_constitutional_safeguards(
            Decision(IF "additional_experts" \in llm_response.keys
                     THEN llm_response.additional_experts
                     ELSE JsonValue("list", <<>>),
                     IF "requires_human_approval" \in llm_response.keys
                     THEN llm_response.requires_human_approval
                     ELSE FALSE,
                     ""),
            message)

SchedulerRouteMessage ==
    /\ \E message \in SchedulerMessages, llm_response \in LlmResponses :
          LET decision == scheduler_route_message(message, llm_response) IN
          routing_call' =
             [message |-> message, llm_response |-> llm_response,
              outcome |-> IF decision.raised # "" THEN decision.raised
                          ELSE IF llm_response.json THEN "decision" ELSE "fallback",
              additional_experts |-> decision.additional_experts,
              requires_human_approval |-> decision.requires_human_approval]
    /\ UNCHANGED <<monitor_vars, signing_vars, daemon_vars, bus_vars, wire_call>>

NextScheduler == SchedulerRouteMessage

SpecScheduler == Init /\ [][NextScheduler]_vars

----------------------------------------------------------------------------
(* The text a signature covers.  A sender signs one envelope; the bus is    *)
(* handed that envelope and envelopes that carry its signature with other   *)
(* content, timestamp or nonce.                                             *)

\* the envelope the sender built and signed, as the example of the source does
SentPacket == Signed(CognitivePacket("a", "x60", 4, "c"), "k1")

\* the sent envelope, and envelopes with its signature and other fields: the
\* "60" moved from the content to the timestamp, another content, another nonce
SignablePackets ==
    {SentPacket,
     [SentPacket EXCEPT !.content = "x", !.timestamp = 604],
     [SentPacket EXCEPT !.content = "x"],
     [SentPacket EXCEPT !.nonce = "bc"]}

SubmitSignable ==
    \E packet \in SignablePackets :
        route_cognitive_packet("route_cognitive_packet", packet)

NextSignable ==
    \/ Tick
    \/ RegisterRouting
    \/ SubmitSignable

SpecSignable == Init /\ [][NextSignable]_vars

----------------------------------------------------------------------------
(* The wire format: to_json_packet writes a packet as nested dicts and      *)
(* from_json_packet builds a packet from them.                              *)

\* the packets put on the wire: those the bus is handed
WirePackets == Packets

\* the whole seconds strptime is tried with
WireSeconds == {packet.timestamp : packet \in WirePackets}

\* the digits strptime takes for %f
Fractions == {"0", "000000"}

\* the offset of local time from UTC, which time.mktime applies
UtcOffsets == {0, 3600}

\* time.strptime(text, "%Y-%m-%dT%H:%M:%S.%fZ"): the seconds of the time the
\* text spells, -1 for the ValueError raised when the text does not match
\* the format (%f stands for one to six digits)
StrpTime(text) ==
    LET spelled == {t \in WireSeconds :
                      \E f \in Fractions :
                         text = "1970-01-01T00:" \o TwoDigits(t \div 60) \o ":"
                                   \o TwoDigits(t % 60) \o "." \o f \o "Z"}
    IN IF spelled = {} THEN -1 ELSE CHOOSE t \in spelled : TRUE

\* time.mktime of a struct_time read as local time
mktime(seconds, utc_offset) == seconds - utc_offset

\* from_json_packet: every field is read from the dicts but the nonce, which
\* __post_init__ makes anew; raised is "ValueError" when strptime raises
from_json_packet(json_data, utc_offset, uuid) ==
    LET seconds == StrpTime(json_data.header.timestamp) IN
    IF seconds = -1
    THEN [raised |-> "ValueError", packet |-> NoPacket]
    ELSE [raised |-> "",
          packet |->
            __post_init__(
              [message_type |-> json_data.layer_4_application.message_type,
               content |-> json_data.layer_4_application.content,
               routing_path |-> json_data.layer_3_coordination.routing_path,
               priority |-> json_data.layer_3_coordination.priority,
               consensus_required |-> json_data.layer_3_coordination.consensus_required,
               resource_cost |-> json_data.layer_2_expert.resource_cost,
               sender_id |-> json_data.layer_1_constitutional.sender_id,
               trust_level |-> json_data.layer_1_constitutional.trust_level,
               constitutional_flags |-> json_data.layer_1_constitutional.constitutional_flags,
               signature |-> json_data.layer_1_constitutional.signature,
               packet_id |-> json_data.header.packet_id,
               timestamp |-> mktime(seconds, utc_offset),
               nonce |-> ""],
              uuid)]

\* p2 = CognitivePacket.from_json_packet(p.to_json_packet())
WireTrip ==
    /\ \E packet \in WirePackets, utc_offset \in UtcOffsets :
          LET outcome == from_json_packet(to_json_packet(packet), utc_offset, "uuid1") IN
          wire_call' = [packet |-> packet,
                        outcome |-> IF outcome.raised # "" THEN outcome.raised
                                    ELSE "restored",
                        restored |-> outcome.packet]
    /\ UNCHANGED <<monitor_vars, signing_vars, daemon_vars, bus_vars, routing_call>>

NextWire ==
    \/ Tick
    \/ RegisterComponent
    \/ WireTrip

SpecWire == Init /\ [][NextWire]_vars

----------------------------------------------------------------------------
(* Properties *)

\* a step that is one submission; last' then holds its packet and outcome
Submitted == calls' = calls + 1

IsPrefix(s, t) == Len(s) <= Len(t) /\ SubSeq(t, 1, Len(s)) = s

Protected(packet) ==
    \E i \in DOMAIN packet.constitutional_flags :
        packet.constitutional_flags[i] = "protected"

RegistryBacked(packet) ==
    /\ packet.sender_id \in DOMAIN component_registry
    /\ component_registry[packet.sender_id].trust_level = "constitutional_protected"

Fresh(packet) == Abs(now - packet.timestamp) <= FreshnessWindow

ClaimOk(packet) ==
    packet.trust_level = "constitutional_protected"
        => Protected(packet) /\ RegistryBacked(packet)

\* the step appends exactly one flag, with this reason
Flagged(reason) ==
    /\ Len(flags') = Len(flags) + 1
    /\ IsPrefix(flags, flags')
    /\ flags'[Len(flags')].reason = reason

\* C1: validate_packet runs structure check, signature check, trust-policy
\* check (freshness, then constitutional claim) and replay check in this
\* order; the first check that fails decides the outcome, raises the only
\* flag, and nothing of a later check happens (no entry in the nonce history).
C1_FirstFailureDecides ==
    [][Submitted =>
        LET p == last'.packet
            v == last'.verdict
            structure == validate_structure(p)
            signature == _verify_packet_signature(p)
            fresh == Fresh(p)
            claim == ClaimOk(p)
            replay == packet_hash(p) \in nonce_history
        IN
        /\ (~structure)
              => (v = "malformed" /\ flags' = flags /\ nonce_history' = nonce_history)
        /\ (structure /\ ~signature)
              => (/\ v = "Invalid cryptographic signature"
                  /\ Flagged(v) /\ nonce_history' = nonce_history)
        /\ (structure /\ signature /\ ~fresh)
              => (/\ v = "Timestamp outside acceptable window"
                  /\ Flagged(v) /\ nonce_history' = nonce_history)
        /\ (structure /\ signature /\ fresh /\ ~claim)
              => (/\ v \in {"Constitutional trust level without protection flag",
                            "Non-constitutional component claiming constitutional trust"}
                  /\ Flagged(v) /\ nonce_history' = nonce_history)
        /\ (structure /\ signature /\ fresh /\ claim /\ replay)
              => (/\ v = "Nonce reuse detected"
                  /\ Flagged(v) /\ nonce_history' = nonce_history)
        /\ (structure /\ signature /\ fresh /\ claim /\ ~replay)
              => (/\ v = "accepted" /\ flags' = flags
                  /\ nonce_history' = nonce_history \cup {packet_hash(p)})
    ]_vars

\* a packet that fails the signature check and is stale and a replay as well:
\* only the signature flag was raised
C1_Witness ==
    /\ last.verdict = "Invalid cryptographic signature"
    /\ ~Fresh(last.packet)
    /\ packet_hash(last.packet) \in nonce_history
    /\ Len(flags) = 1

\* C2 (as stated): once an envelope with a (sender_id, nonce, timestamp) has
\* been accepted, every later envelope with the same triple is rejected as a
\* replay.
C2_LaterIsReplay ==
    [][Submitted /\ ReplayTriple(last'.packet) \in accepted
          => last'.verdict = "Nonce reuse detected"]_vars

\* C2 (amended): at most one envelope with a given triple is ever accepted;
\* a later envelope with the same triple is rejected, and it is rejected as a
\* replay whenever it passes the structure, signature and trust-policy checks.
C2_AtMostOneAccepted ==
    [][Submitted /\ ReplayTriple(last'.packet) \in accepted
          => LET p == last'.packet IN
             /\ last'.verdict # "accepted"
             /\ ~last'.result
             /\ accepted' = accepted
             /\ (validate_structure(p) /\ _verify_packet_signature(p)
                   /\ Fresh(p) /\ ClaimOk(p))
                   => last'.verdict = "Nonce reuse detected"
    ]_vars

C2_Witness ==
    /\ last.verdict = "Nonce reuse detected"
    /\ ReplayTriple(last.packet) \in accepted
    /\ Cardinality(accepted) = 1

\* C3: when two threads run validate_packet on envelopes with the same
\* (sender_id, nonce, timestamp), at most one of the calls returns acceptance.
C3_OneOfTwoAccepted ==
    \A t, u \in Threads :
        /\ t # u
        /\ pc[t] = "returned" /\ pc[u] = "returned"
        /\ ReplayTriple(frame[t].packet) = ReplayTriple(frame[u].packet)
        => ~(frame[t].result /\ frame[u].result)

\* the same packet with one field other than the signature set to another value
SingleFieldChanges(q) ==
    {[q EXCEPT !.sender_id = "ab"],
     [q EXCEPT !.content = "x60"],
     [q EXCEPT !.timestamp = 604],
     [q EXCEPT !.nonce = "bc"],
     [q EXCEPT !.routing_path = <<"openai">>],
     [q EXCEPT !.message_type = "plan"],
     [q EXCEPT !.trust_level = "verified"],
     [q EXCEPT !.constitutional_flags = <<"safe_implementation">>],
     [q EXCEPT !.priority = "high"],
     [q EXCEPT !.resource_cost = "medium"],
     [q EXCEPT !.consensus_required = ~q.consensus_required]} \ {q}

\* C4: for an envelope validate_packet would accept, changing any single
\* field other than the signature, the signature kept, makes validate_packet
\* reject it at the signature check.
C4_SignatureCoversEveryField ==
    \A q \in Packets :
        validate_packet(q) = "accepted"
        => \A p \in SingleFieldChanges(q) :
              validate_packet(p) = "Invalid cryptographic signature"

\* C5: an envelope claiming constitutional_protected passes the trust-policy
\* check only if "protected" is among its flags and the registry records its
\* sender as constitutional_protected; otherwise it is rejected and nothing is
\* delivered.
C5_ClaimNeedsRegistry ==
    [][Submitted /\ last'.packet.trust_level = "constitutional_protected"
         /\ ~(Protected(last'.packet) /\ RegistryBacked(last'.packet))
          => /\ last'.verdict \notin {"accepted", "Nonce reuse detected"}
             /\ ~last'.result
             /\ message_buffers' = message_buffers
             /\ nonce_history' = nonce_history
    ]_vars

\* a provisional sender with a valid signature and the "protected" flag
C5_Witness ==
    /\ last.verdict = "Non-constitutional component claiming constitutional trust"
    /\ Protected(last.packet)
    /\ last.packet.sender_id \in DOMAIN component_registry
    /\ component_registry[last.packet.sender_id].trust_level = "provisional"
    /\ last.op = "route_cognitive_packet"

\* C6: every rejection by the signature, trust-policy or replay check (every
\* rejection of a structurally valid envelope) makes the ledger reported by
\* get_verifier_status longer by one flag.
C6_RejectionRaisesFlag ==
    [][Submitted /\ validate_structure(last'.packet) /\ last'.verdict # "accepted"
          => /\ Len(get_verifier_status'.active_flags)
                  = Len(get_verifier_status.active_flags) + 1
             /\ IsPrefix(get_verifier_status.active_flags,
                         get_verifier_status'.active_flags)
             /\ flags'[Len(flags')].reason = last'.verdict
             /\ flags'[Len(flags')].reason \in
                   {"Invalid cryptographic signature",
                    "Timestamp outside acceptable window",
                    "Constitutional trust level without protection flag",
                    "Non-constitutional component claiming constitutional trust",
                    "Nonce reuse detected"}
    ]_vars

\* a replay of an accepted envelope: the ledger has its first flag
C6_Witness ==
    /\ last.verdict = "Nonce reuse detected"
    /\ Len(flags) = 1
    /\ flags[1].reason = "Nonce reuse detected"

\* C7: the active_flags list reported by get_verifier_status only grows at
\* its end: each earlier list is a prefix of every later one.
C7_FlagsPermanent ==
    [][IsPrefix(get_verifier_status.active_flags,
                get_verifier_status'.active_flags)]_vars

C7_Witness ==
    /\ Len(get_verifier_status.active_flags) = 2
    /\ flags[1].reason # flags[2].reason
    /\ \E c \in DOMAIN component_registry : TRUE

\* C8: validate_packet accepts only an envelope that is structurally valid,
\* whose sender is registered and whose signature verifies under the
\* registered key, whose timestamp is within 300 s of now, whose
\* constitutional claim is registry-backed, and whose replay key was not in
\* the nonce history before the call.
C8_AcceptedPassedAll ==
    [][Submitted /\ last'.verdict = "accepted"
          => LET p == last'.packet IN
             /\ validate_structure(p)
             /\ p.sender_id \in DOMAIN component_registry
             /\ verify_signature(component_registry[p.sender_id].public_key_bytes,
                                 p.signature, signable_content(p))
             /\ Abs(now - p.timestamp) <= 300
             /\ ClaimOk(p)
             /\ packet_hash(p) \notin nonce_history
    ]_vars

C8_Witness ==
    /\ last.op = "validate_packet"
    /\ last.verdict = "accepted"
    /\ last.result
    /\ last.packet.trust_level = "constitutional_protected"

\* C9: the freshness check rejects exactly when |now - timestamp| > 300:
\* 301 s old or 301 s ahead is rejected, 299 s and exactly 300 s are not.
C9_FreshnessBoundary ==
    [][Submitted /\ validate_structure(last'.packet)
         /\ _verify_packet_signature(last'.packet)
          => LET d == Abs(now - last'.packet.timestamp)
                 stale == last'.verdict = "Timestamp outside acceptable window"
             IN /\ stale <=> d > 300
                /\ d = 301 => stale
                /\ d \in {299, 300} /\ ClaimOk(last'.packet)
                     /\ packet_hash(last'.packet) \notin nonce_history
                      => last'.verdict = "accepted"
    ]_vars

\* a signed envelope exactly at the boundary, 300 s ahead, accepted
C9_Witness ==
    /\ last.verdict = "accepted"
    /\ last.packet.timestamp - now = 300

\* C10: an envelope from an unregistered sender is rejected with a reason
\* other than the one reported for a registered sender's bad signature.
C10_UnknownSenderReason ==
    [][Submitted /\ validate_structure(last'.packet)
         /\ last'.packet.sender_id \notin DOMAIN component_registry
          => /\ last'.verdict # "accepted"
             /\ flags'[Len(flags')].reason # "Invalid cryptographic signature"
    ]_vars

----------------------------------------------------------------------------
(* Routing outcome and risk gate *)

\* which of the three cases a routing call ended in
RoutingCase(call) ==
    IF call.verdict # "accepted"
    THEN "rejected"
    ELSE IF apply_critical_reasoning_packet(call.packet).safe
    THEN "delivered"
    ELSE "withheld"

\* C11: the value route_cognitive_packet returns tells the caller which case
\* happened: two routing calls that return the same value ended in the same
\* case (delivered, withheld on risk grounds, or rejected by verification).
C11_OutcomeTellsCase ==
    [][Submitted /\ last.op = "route_cognitive_packet"
         /\ last'.op = "route_cognitive_packet"
         /\ last'.result = last.result
          => RoutingCase(last') = RoutingCase(last)
    ]_vars

\* C12: the risk score of an accepted envelope is 0.1, +0.3 for critical
\* resource cost, +0.2 for emergency priority, +0.1 for consensus_required
\* (in tenths: 1, 3, 2, 1); routing delivers iff the score is below 0.5, so
\* it withholds exactly when the cost is critical and the priority is
\* emergency or consensus is required, 0.5 itself being withheld; a withheld
\* envelope reaches no buffer, a delivered one carries its score in its record.
C12_RiskGate ==
    [][Submitted /\ last'.op = "route_cognitive_packet" /\ last'.verdict = "accepted"
          => LET p == last'.packet
                 critical == p.resource_cost = "critical"
                 emergency == p.priority = "emergency"
                 consensus == p.consensus_required
                 score == 1 + (IF critical THEN 3 ELSE 0)
                            + (IF emergency THEN 2 ELSE 0)
                            + (IF consensus THEN 1 ELSE 0)
                 first == p.routing_path[1]
             IN /\ apply_critical_reasoning_packet(p).risk_score = score
                /\ last'.result <=> (score < 5)
                /\ (~last'.result) <=> (critical /\ (emergency \/ consensus))
                /\ (score = 5) => ~last'.result
                /\ (~last'.result) => (message_buffers' = message_buffers)
                /\ (last'.result /\ first \in DOMAIN message_buffers)
                      => (/\ Len(message_buffers'[first]) = Len(message_buffers[first]) + 1
                          /\ message_buffers'[first][Len(message_buffers'[first])]
                                .reasoning.risk_score = score)
    ]_vars

\* an accepted envelope whose score is exactly 0.5 (critical cost and
\* consensus required, normal priority), withheld
C12_Witness ==
    /\ last.op = "route_cognitive_packet"
    /\ last.verdict = "accepted"
    /\ ~last.result
    /\ apply_critical_reasoning_packet(last.packet).risk_score = 5
    /\ \A b \in DOMAIN message_buffers : message_buffers[b] = <<>>

----------------------------------------------------------------------------
(* Delivery *)

\* a known component: one with a registry entry or a buffer made by __init__
Component(id) == id \in DOMAIN component_registry \cup PreCreatedBuffers

\* the step appended exactly the record of this packet to the buffer that
\* get_component_buffer returns for id
Delivered(id, packet) ==
    DictGet(message_buffers', id, <<>>)
        = Append(get_component_buffer(id), BufferRecord(packet))

\* C13: when route_cognitive_packet returns True for an envelope whose
\* destinations are all known components, every destination's buffer, as
\* get_component_buffer returns it, has exactly one new record, the
\* envelope's, at its end; registered components without a pre-created
\* buffer included.
C13_DeliveredToEveryDestination ==
    [][Submitted /\ last'.op = "route_cognitive_packet" /\ last'.result
         /\ (\A i \in DOMAIN last'.packet.routing_path :
                Component(last'.packet.routing_path[i]))
          => \A i \in DOMAIN last'.packet.routing_path :
                Delivered(last'.packet.routing_path[i], last'.packet)
    ]_vars

\* a record of this packet is in the buffer get_component_buffer returns
InBuffer(id, packet) ==
    \E k \in DOMAIN get_component_buffer(id) :
        get_component_buffer(id)[k].cognitive_packet = to_json_packet(packet)

\* C14: in no state, the states between two appends of one fan-out included,
\* does a reader of the buffers find an envelope in the buffer of one of its
\* destinations and not in the buffer of another (destinations that have a
\* buffer).
C14_FanOutAtomic ==
    \A t \in Threads :
        LET packet == frame[t].packet IN
        \A i, j \in DOMAIN packet.routing_path :
            (/\ packet.routing_path[i] \in DOMAIN message_buffers
             /\ packet.routing_path[j] \in DOMAIN message_buffers)
            => (InBuffer(packet.routing_path[i], packet)
                  <=> InBuffer(packet.routing_path[j], packet))

\* the precondition of the happy path: a sender registered as verified, an
\* execute envelope for one known component, validly signed, fresh, not seen
\* before, of low cost and normal priority
HappyPath(packet) ==
    /\ packet.sender_id \in DOMAIN component_registry
    /\ component_registry[packet.sender_id].trust_level = "verified"
    /\ packet.message_type = "execute"
    /\ Len(packet.routing_path) = 1
    /\ Component(packet.routing_path[1])
    /\ validate_structure(packet)
    /\ _verify_packet_signature(packet)
    /\ Fresh(packet)
    /\ packet_hash(packet) \notin nonce_history
    /\ packet.resource_cost = "low"
    /\ packet.priority = "normal"

\* C15: on the happy path routing returns True, the envelope's record is the
\* new last record of B's buffer, and no flag is raised.
C15_HappyPathDelivers ==
    [][Submitted /\ last'.op = "route_cognitive_packet" /\ HappyPath(last'.packet)
          => /\ last'.result
             /\ Delivered(last'.packet.routing_path[1], last'.packet)
             /\ flags' = flags
    ]_vars

\* C16: an envelope with an empty routing_path fails the structure check:
\* validate_packet never accepts it, nothing of it enters the nonce history,
\* and routing never returns True for it.
C16_EmptyDestinationsRejected ==
    [][Submitted /\ last'.packet.routing_path = <<>>
          => /\ last'.verdict # "accepted"
             /\ ~last'.result
             /\ nonce_history' = nonce_history
    ]_vars

----------------------------------------------------------------------------
(* Consensus-attack monitor *)

\* a step that is one check_bypass_attempt call; the last entry of
\* monitor_log' then holds its arguments and what it returned
MonitorCalled == Len(monitor_log') = Len(monitor_log) + 1

Distinct(attempting_components) ==
    Cardinality({attempting_components[i] : i \in DOMAIN attempting_components})

\* C17: check_bypass_attempt returns an alert iff the attempt targets the
\* protected verifier with at least 2 distinct attacking component ids and at
\* least 3 recorded attempts, this one included, are less than 3600 s old;
\* the alert carries those attempts and none that is older.
C17_AlertIffThreshold ==
    [][MonitorCalled
          => LET call == monitor_log'[Len(monitor_log')]
                 recent == recent_attempts(bypass_attempts')
             IN /\ (call.alert # NoAlert)
                      <=> (/\ call.target = "autistic_verifier"
                           /\ Distinct(call.attackers) >= 2
                           /\ Len(recent) >= 3)
                /\ (call.alert # NoAlert)
                      => (/\ call.alert.attempts = recent
                          /\ call.alert.severity = "critical")
    ]_vars

\* C18: when the first three attempts are made by three distinct senders,
\* one sender each, against the protected verifier within one hour, the
\* first two return no alert and the third returns the alert.
C18_ThirdAttemptAlerts ==
    (/\ Len(monitor_log) >= 3
     /\ \A k \in 1..3 : /\ monitor_log[k].target = "autistic_verifier"
                         /\ Len(monitor_log[k].attackers) = 1
     /\ Cardinality({monitor_log[k].attackers[1] : k \in 1..3}) = 3
     /\ monitor_log[3].timestamp - monitor_log[1].timestamp < AttackWindow)
    => (/\ monitor_log[1].alert = NoAlert
        /\ monitor_log[2].alert = NoAlert
        /\ monitor_log[3].alert # NoAlert
        /\ monitor_log[3].alert.severity = "critical")

\* the calls of the log that name the protected verifier and two or more
\* attackers, and are less than an hour old
CountedCalls(log) ==
    SelectSeq(log, LAMBDA call : /\ call.target = "autistic_verifier"
                                 /\ Len(call.attackers) >= 2
                                 /\ now - call.timestamp < AttackWindow)

\* C19: what check_bypass_attempt returns is determined by the sequence of
\* attempts made so far, with their times, and the clock: the alert is
\* returned iff the call counts and three counted calls are less than an
\* hour old, and it carries exactly these attempts, whatever the registry,
\* the nonce history, the flag ledger and the outcomes of validate_packet
\* are; and no bus operation changes the monitor's attempt list.
C19_AlertUnfiltered ==
    [][IF MonitorCalled
       THEN LET call == monitor_log'[Len(monitor_log')]
                counted == CountedCalls(monitor_log')
                counts == call.target = "autistic_verifier" /\ Len(call.attackers) >= 2
            IN call.alert =
                 IF counts /\ Len(counted) >= attack_threshold
                 THEN [alert_type |-> "consensus_attack_detected",
                       timestamp |-> now,
                       details |-> "Multiple attempts to bypass autistic verifier detected",
                       attempts |-> [k \in 1..Len(counted) |->
                                       [timestamp |-> counted[k].timestamp,
                                        target |-> counted[k].target,
                                        attackers |-> counted[k].attackers]],
                       severity |-> "critical"]
                 ELSE NoAlert
       ELSE bypass_attempts' = bypass_attempts
    ]_vars

\* an alert returned while the flag ledger holds a flag, the nonce history a
\* replay key, and an attacker has no registry entry
C19_Witness ==
    /\ monitor_log # <<>>
    /\ monitor_log[Len(monitor_log)].alert # NoAlert
    /\ flags # <<>>
    /\ nonce_history # {}
    /\ "ab" \notin DOMAIN component_registry

----------------------------------------------------------------------------
(* Registry *)

\* a step that is one register_component call for this id
Registered(id) ==
    /\ calls' = calls
    /\ now' = now
    /\ id \in DOMAIN component_registry'
    /\ \A c \in DOMAIN component_registry \ {id} :
          c \in DOMAIN component_registry'
            /\ component_registry'[c] = component_registry[c]

\* C20: register_component replaces the whole entry of an id and leaves the
\* other entries alone; the registry changes in no other step; and every
\* later submission is checked against the newest entry: an envelope signed
\* with key k1 is rejected at the signature check when the entry of its
\* sender holds another key, and a constitutional claim passes only under
\* the trust level the entry holds now.
C20_RegisterIsUpsert ==
    [][/\ (component_registry' # component_registry)
            => (\E r \in Registrations :
                  /\ Registered(r[1])
                  /\ component_registry'[r[1]] = RegistryEntry(r[2], r[3], r[4]))
       /\ Submitted
            => LET p == last'.packet IN
               /\ component_registry' = component_registry
               /\ (/\ p \in HonestPackets
                   /\ p.sender_id \in DOMAIN component_registry
                   /\ component_registry[p.sender_id].public_key_bytes
                         # PublicKeyBytes("k1"))
                     => last'.verdict = "Invalid cryptographic signature"
               /\ (last'.verdict = "accepted"
                     /\ p.trust_level = "constitutional_protected")
                     => component_registry[p.sender_id].trust_level
                          = "constitutional_protected"
    ]_vars

\* C21: register_component fails with InvalidKey and leaves the registry
\* unchanged when the public key is not 32 raw key bytes: no step puts an
\* entry with a malformed key into the registry.
C21_MalformedKeyRejected ==
    [][\A id \in DOMAIN component_registry' :
          ~IsRawPublicKey(component_registry'[id].public_key_bytes)
            => /\ id \in DOMAIN component_registry
               /\ component_registry[id] = component_registry'[id]
    ]_vars

\* thread t has appended its violation to the flag ledger
Raised(t) ==
    \/ pc[t] = "violation"
    \/ pc[t] = "returned" /\ frame[t].reason # "none"

\* C22: concurrent rejections lose no flags: under every interleaving of the
\* validate_packet calls the flag ledger holds one entry for every flag
\* raised so far, with the reason and the context of the call that raised it.
C22_NoFlagLost ==
    /\ Len(flags) = Cardinality({t \in Threads : Raised(t)})
    /\ \A t \in Threads :
          Raised(t) => \E i \in DOMAIN flags :
                          /\ flags[i].reason = frame[t].reason
                          /\ flags[i].context = ContextDigest(frame[t].packet)

\* two calls are inside flag_violation at the same time, with different
\* reasons, and both have appended to the ledger
C22_Witness ==
    /\ \A t \in Threads : pc[t] = "violation"
    /\ Len(flags) = 2
    /\ frame["t1"].reason # frame["t2"].reason

\* C23: the buffers are append-only for the bus: no step removes a buffer or
\* removes, rewrites or reorders a record in one; what a step adds comes
\* after the records already there and is the record of the envelope that
\* step delivered; so the records of a buffer stand in delivery order.
C23_BuffersAppendOnly ==
    [][/\ DOMAIN message_buffers' = DOMAIN message_buffers
       /\ \A b \in DOMAIN message_buffers :
             /\ IsPrefix(message_buffers[b], message_buffers'[b])
             /\ \A i \in (Len(message_buffers[b]) + 1)..Len(message_buffers'[b]) :
                   /\ Submitted
                   /\ last'.result
                   /\ message_buffers'[b][i] = BufferRecord(last'.packet)
             /\ \A i, j \in DOMAIN message_buffers'[b] :
                   i < j => message_buffers'[b][i].routed_at
                              <= message_buffers'[b][j].routed_at
    ]_vars

\* a buffer holds the records of two envelopes, delivered at different times
C23_Witness ==
    \E b \in DOMAIN message_buffers :
        /\ Len(message_buffers[b]) = 2
        /\ message_buffers[b][1].cognitive_packet # message_buffers[b][2].cognitive_packet
        /\ message_buffers[b][1].routed_at < message_buffers[b][2].routed_at

\* a verify_signature call has just been made
Verified == verify_outcome.result # "none"

\* the Signature the caller holds is what sign_message returned for the
\* signed payload and key
Intact(signature) ==
    \E public_key_id \in PublicKeyIds :
        signature = sign_message(signed_payload, signer_key, public_key_id)

\* the call was given the public key of the signing key
MatchingKey == verify_outcome.public_key = PublicKeyBytes(signer_key)

\* C24: sign/verify round trip: verify_signature(payload, sign_message(payload,
\* private_key), public_key) is True for the public key of private_key, on the
\* Signature itself and on the one restored by from_dict from its to_dict.
C24_RoundTrip ==
    (/\ Verified
     /\ Intact(signature_obj)
     /\ verify_outcome.payload = signed_payload
     /\ MatchingKey)
      => verify_outcome.result = "True"

\* a restored signature of the signed payload was verified with the matching key
C24_Witness ==
    /\ Verified
    /\ Intact(signature_obj)
    /\ verify_outcome.restored
    /\ verify_outcome.signature = from_dict(to_dict(signature_obj))
    /\ verify_outcome.payload = signed_payload
    /\ MatchingKey
    /\ verify_outcome.result = "True"

\* payload has the fields of the signed payload and another value in one
Tampered(payload) ==
    /\ Names(payload) = Names(signed_payload)
    /\ \E name \in Names(payload) : Item(payload, name) # Item(signed_payload, name)

\* C25: tamper detection: with a signature made by sign_message and the
\* matching public key, verify_signature returns False for every payload
\* that differs from the signed one in the value of a field.
C25_TamperDetected ==
    (/\ Verified
     /\ Intact(signature_obj)
     /\ MatchingKey
     /\ Tampered(verify_outcome.payload))
      => verify_outcome.result = "False"

\* the payload verified differs from the signed one only in that the value
\* of field a is the text "1" in one and the number 1 in the other
C25_Witness ==
    /\ Verified
    /\ Intact(signature_obj)
    /\ MatchingKey
    /\ Tampered(verify_outcome.payload)
    /\ Item(verify_outcome.payload, "b") = Item(signed_payload, "b")
    /\ Item(verify_outcome.payload, "a").text = Item(signed_payload, "a").text
    /\ verify_outcome.result = "False"

\* the same field names with the same values, in whatever insertion order
SameFields(p, q) ==
    /\ Names(p) = Names(q)
    /\ \A name \in Names(p) : Item(p, name) = Item(q, name)

\* C26: canonicalization is order-independent: a payload with the fields of
\* the signed one in any insertion order has the same canonical bytes, the
\* same key signs it to the same signature data, and the signature over the
\* one verifies the other.
C26_OrderIndependent ==
    (Verified /\ SameFields(verify_outcome.payload, signed_payload))
      => /\ _canonicalize_payload(verify_outcome.payload)
              = _canonicalize_payload(signed_payload)
         /\ \A public_key_id \in PublicKeyIds :
               sign_message(verify_outcome.payload, signer_key, public_key_id).signature_data
                  = sign_message(signed_payload, signer_key, public_key_id).signature_data
         /\ (Intact(signature_obj) /\ MatchingKey)
               => verify_outcome.result = "True"

\* the payload verified has the fields of the signed one in the other order
C26_Witness ==
    /\ Verified
    /\ SameFields(verify_outcome.payload, signed_payload)
    /\ verify_outcome.payload # signed_payload
    /\ Intact(signature_obj)
    /\ MatchingKey
    /\ verify_outcome.result = "True"


\* the public key the last verify_signature call used: the one it was given,
\* or the one found by key id; "None" when there is none
KeyUsed ==
    IF verify_outcome.public_key = "None"
    THEN _auto_discover_public_key(verify_outcome.signature.public_key_id)
    ELSE verify_outcome.public_key

\* the signature carries a fingerprint and it is not the one of the key used
FingerprintMismatch ==
    /\ verify_outcome.signature.key_fingerprint # ""
    /\ verify_outcome.signature.key_fingerprint # Fingerprint(KeyUsed)

\* the signature data is what sign_message made with the signing key
DataBySigner ==
    verify_outcome.signature.signature_data
       = b64encode(Ed25519Sign(signer_key, _canonicalize_payload(signed_payload)))

\* C27: verify_signature returns True only if the algorithm is Ed25519, the
\* key fingerprint, when present, is the fingerprint of the public key used,
\* and the signature over the canonical payload passes the cryptographic
\* check under that key; any other algorithm name, a mismatching fingerprint
\* or a key other than the signer's yields False.
C27_VerifyConditions ==
    Verified =>
      /\ verify_outcome.result = "True" =>
            /\ verify_outcome.signature.algorithm = "Ed25519"
            /\ KeyUsed # "None"
            /\ ~FingerprintMismatch
            /\ ~b64decode_raises(verify_outcome.signature.signature_data)
            /\ Ed25519Verify(KeyUsed,
                             b64decode(verify_outcome.signature.signature_data),
                             _canonicalize_payload(verify_outcome.payload))
      /\ verify_outcome.signature.algorithm # "Ed25519" =>
            verify_outcome.result = "False"
      /\ (KeyUsed # "None" /\ FingerprintMismatch) =>
            verify_outcome.result = "False"
      /\ (KeyUsed # "None" /\ KeyUsed # PublicKeyBytes(signer_key) /\ DataBySigner) =>
            verify_outcome.result = "False"

\* a signature whose only flaw is a fingerprint of another key was refused
C27_Witness ==
    /\ Verified
    /\ verify_outcome.signature.algorithm = "Ed25519"
    /\ verify_outcome.payload = signed_payload
    /\ MatchingKey
    /\ DataBySigner
    /\ FingerprintMismatch
    /\ verify_outcome.result = "False"

\* the signature data is not base64 text
Undecodable == b64decode_raises(verify_outcome.signature.signature_data)

\* the signature data is base64 text of something that is not 64 bytes long
WrongLength ==
    /\ ~Undecodable
    /\ b64decode(verify_outcome.signature.signature_data).length # 64

\* C28 (as stated): with a public key available, verify_signature returns
\* False for signature data that cannot be decoded and for signature data of
\* the wrong length, and raises only when no public key can be obtained.
C28_MalformedYieldsFalse ==
    (Verified /\ KeyUsed # "None") =>
      /\ (Undecodable \/ WrongLength) => verify_outcome.result = "False"
      /\ verify_outcome.result # "VerificationError"

\* C28 (amended): with a public key available, signature data of the wrong
\* length yields False; signature data that cannot be decoded yields False
\* only when the algorithm is unsupported or the fingerprint mismatches, and
\* otherwise raises VerificationError, which is the only error raised with a
\* key available. With a supported algorithm and no public key obtainable
\* the call raises VerificationError as well.
C28_MalformedData ==
    Verified =>
      /\ (KeyUsed # "None" /\ WrongLength) => verify_outcome.result = "False"
      /\ (KeyUsed # "None" /\ Undecodable) =>
            verify_outcome.result =
               IF \/ verify_outcome.signature.algorithm # "Ed25519"
                  \/ FingerprintMismatch
               THEN "False"
               ELSE "VerificationError"
      /\ (KeyUsed # "None" /\ verify_outcome.result = "VerificationError") =>
            Undecodable
      /\ (KeyUsed = "None" /\ verify_outcome.signature.algorithm = "Ed25519") =>
            verify_outcome.result = "VerificationError"

\* undecodable signature data reached the decoder with the signer's key given
C28_Witness ==
    /\ Verified
    /\ MatchingKey
    /\ Undecodable
    /\ verify_outcome.signature.algorithm = "Ed25519"
    /\ ~FingerprintMismatch
    /\ verify_outcome.result = "VerificationError"


\* a process_message call has just ended, by returning or by raising
Processed == stats' # stats

\* the call returned a ProcessingResult
Returned == Processed /\ processing_result'.status # "raised"

\* C29: every process_message call that returns has raised messages_processed
\* by exactly 1 and exactly one of messages_successful and messages_failed by
\* 1, so that messages_processed = messages_successful + messages_failed
\* after any sequence of calls that returned.
C29_StatsPartition ==
    /\ [](/\ stats.messages_processed
               = stats.messages_successful + stats.messages_failed + escaped
          /\ escaped = 0 =>
                stats.messages_processed
                   = stats.messages_successful + stats.messages_failed)
    /\ [][Returned =>
            /\ stats'.messages_processed = stats.messages_processed + 1
            /\ \/ /\ stats'.messages_successful = stats.messages_successful + 1
                  /\ stats'.messages_failed = stats.messages_failed
               \/ /\ stats'.messages_successful = stats.messages_successful
                  /\ stats'.messages_failed = stats.messages_failed + 1
            /\ escaped' = escaped
         ]_vars

\* two calls have returned, the later one with an error response
C29_Witness ==
    /\ stats.messages_processed = 2
    /\ stats.messages_successful + stats.messages_failed = 2
    /\ escaped = 0
    /\ processing_result.status = "processing_failed"
    /\ processing_result.output_file \in DOMAIN outbox

\* file is in the inbox and holds a well-formed unsigned message from a
\* registered sender to a registered receiver with a fresh timestamp and an
\* unused nonce
WellFormedUnsigned(file) ==
    LET text == FileText(file) IN
    /\ file \in inbox
    /\ text.json
    /\ ~ComponentMessage_raises(text.data)
    /\ DOMAIN MessageSignature(text.data) = {}
    /\ text.data.message_type \in MessageTypes
    /\ text.data.sender_id \in DOMAIN component_registry
    /\ text.data.receiver_id \in DOMAIN component_registry
    /\ Abs(now - text.data.timestamp) <= FreshnessWindow
    /\ packet_hash(bus_packet(text.data)) \notin nonce_history

\* file is in the inbox and holds a message with required fields missing,
\* or with a signature that does not verify
Unacceptable(file) ==
    LET text == FileText(file) IN
    /\ file \in inbox
    /\ text.json
    /\ \/ ComponentMessage_raises(text.data)
       \/ /\ DOMAIN MessageSignature(text.data) # {}
          /\ SignatureRequired \subseteq DOMAIN MessageSignature(text.data)
          /\ signing_verify_signature(message_payload(text.data),
                                      from_dict(MessageSignature(text.data)),
                                      "None") # "True"

\* C30: process_message on a well-formed unsigned message from a registered
\* sender to a registered receiver, with a fresh timestamp and an unused
\* nonce, ends with status routed_successfully, a response to the sender
\* signed by bus_daemon in the outbox and the inbox file in the archive; a
\* message with missing fields or an unverifiable signature ends with
\* success false and an error response.
C30_ValidMessageRouted ==
    [][Returned =>
         LET file == processing_result'.file
             data == FileText(file).data
             output_file == processing_result'.output_file
         IN /\ WellFormedUnsigned(file) =>
                  /\ processing_result'.success
                  /\ processing_result'.status = "routed_successfully"
                  /\ output_file \in DOMAIN outbox'
                  /\ outbox'[output_file].sender_id = "bus_daemon"
                  /\ outbox'[output_file].receiver_id = data.sender_id
                  /\ outbox'[output_file].signature.public_key_id = "bus_daemon"
                  /\ outbox'[output_file].signature.key_fingerprint
                        = Fingerprint(PublicKeyBytes(daemon_private_key))
                  /\ file \in archive'
                  /\ file \notin inbox'
            /\ Unacceptable(file) =>
                  /\ ~processing_result'.success
                  /\ output_file \in DOMAIN outbox'
                  /\ outbox'[output_file].error # ""
      ]_vars

\* what holds of the second half of C30: a message with missing fields or an
\* unverifiable signature ends with success false and an error response
ErrorResponseForUnacceptable ==
    [][(Returned /\ Unacceptable(processing_result'.file)) =>
          /\ ~processing_result'.success
          /\ processing_result'.output_file \in DOMAIN outbox'
          /\ outbox'[processing_result'.output_file].error = "processing_failed"
      ]_vars

\* what the code does with the well-formed unsigned message: it fails
ValidMessageFails ==
    [][(Returned /\ WellFormedUnsigned(processing_result'.file)) =>
          /\ processing_result'.status = "processing_failed"
          /\ TryException(processing_result'.file) = "TypeError"
          /\ processing_result'.file \in inbox'
      ]_vars


\* file has just been handed to process_message
HandedOver(file) == Processed /\ processing_result'.file = file

\* C31: a failed submission is never retried automatically: run and the
\* poller hand each file to process_message at most once for as long as the
\* file stays in the inbox, the poller hands it over only after its size is
\* stable and non-zero, and a file name is forgotten only after the file
\* has left the inbox.
C31_NoAutomaticRetry ==
    [][/\ \A file \in PollerFiles : HandedOver(file) => file \notin handed
       /\ \A file \in PollerFiles :
             (HandedOver(file) /\ poller_pc = "polling") =>
                /\ file \in inbox
                /\ sizes[file] > 0
                /\ sizes'[file] = sizes[file]
       /\ \A file \in processed_files \ processed_files' : file \notin handed
      ]_vars

\* what holds of the first part of C31: a file is handed over again only
\* when the poller does not hold its name, which is the case after a call
\* that raised; every call that returns leaves the name with the poller
HandedAgainOnlyAfterRaise ==
    [][\A file \in PollerFiles :
          /\ (HandedOver(file) /\ file \in handed) => file \notin processed_files
          /\ (HandedOver(file) /\ Returned /\ file \in inbox) =>
                file \in processed_files'
      ]_vars


\* route_message has just returned a RoutingDecision
Routed == routing_call.outcome \in {"decision", "fallback"}

\* name is one of the experts of the list additional_experts
Among(name, additional_experts) ==
    /\ additional_experts.type = "list"
    /\ \E i \in DOMAIN additional_experts.items : additional_experts.items[i] = name

\* C32: every RoutingDecision returned by route_message has autistic_verifier
\* among its additional experts when the message contains a verifier word,
\* guardian among them when it contains a guardian word, requires human
\* approval when it contains an approval word, and has both safeguards and
\* human approval when the model's reply could not be parsed.
C32_SafeguardsNotBypassed ==
    Routed =>
      /\ AnyWordIn(verifier_words, routing_call.message) =>
            Among("autistic_verifier", routing_call.additional_experts)
      /\ AnyWordIn(guardian_words, routing_call.message) =>
            Among("guardian", routing_call.additional_experts)
      /\ AnyWordIn(approval_words, routing_call.message) =>
            routing_call.requires_human_approval
      /\ ~routing_call.llm_response.json =>
            /\ Among("autistic_verifier", routing_call.additional_experts)
            /\ Among("guardian", routing_call.additional_experts)
            /\ routing_call.requires_human_approval

\* what holds of C32: the same for every reply whose additional_experts is
\* a list or missing
SafeguardsForListReplies ==
    routing_call.llm_response.additional_experts.type = "list" =>
       C32_SafeguardsNotBypassed


\* thread t's call of validate_packet returns in this step
Returns(t) == pc[t] # "returned" /\ pc'[t] = "returned"

\* the calls that have returned acceptance so far
Acceptances == {t \in Threads : pc[t] = "returned" /\ frame[t].result}

\* C33: a rejected submission leaves every buffer and the nonce history as they
\* were, a structure rejection leaves the flag ledger as well, an acceptance adds
\* exactly one key, and the nonce history has as many keys as there were
\* acceptances.
C33_OutcomeOwnsChanges ==
    /\ [](Cardinality(nonce_history) = Cardinality(Acceptances))
    /\ [][\A t \in Threads : Returns(t) =>
            /\ (~frame'[t].result) =>
                  /\ message_buffers' = message_buffers
                  /\ nonce_history' = nonce_history
            /\ (pc[t] = "structure") =>
                  UNCHANGED <<flags, pattern_violations, component_registry,
                              message_buffers, nonce_history>>
            /\ frame'[t].result =>
                  Cardinality(nonce_history') = Cardinality(nonce_history) + 1
         ]_vars

\* with one caller at a time the same holds: what a submission changes is
\* decided by its verdict alone
OutcomeOwnsChangesOneCaller ==
    /\ [](Cardinality(nonce_history) = Cardinality(accepted))
    /\ [][Submitted =>
            /\ (last'.verdict # "accepted") =>
                  /\ message_buffers' = message_buffers
                  /\ nonce_history' = nonce_history
                  /\ accepted' = accepted
            /\ (last'.verdict = "malformed") =>
                  UNCHANGED <<flags, pattern_violations, component_registry,
                              message_buffers, nonce_history>>
            /\ (last'.verdict = "accepted") =>
                  /\ Cardinality(nonce_history') = Cardinality(nonce_history) + 1
                  /\ Cardinality(accepted') = Cardinality(accepted) + 1
         ]_vars


\* the latest submission was accepted by validate_packet and withheld by the
\* risk gate of route_cognitive_packet
Withheld ==
    /\ last.op = "route_cognitive_packet"
    /\ last.verdict = "accepted"
    /\ ~last.result

\* a submission that is withheld raises no flag, reaches no buffer and leaves
\* its replay key in the nonce history
WithheldConsumesNonce ==
    Submitted /\ Withheld' =>
        /\ flags' = flags
        /\ message_buffers' = message_buffers
        /\ packet_hash(last'.packet) \notin nonce_history
        /\ packet_hash(last'.packet) \in nonce_history'

\* C34 (as stated): a withheld envelope has consumed its nonce without a flag
\* and without delivery, and submitting the same envelope again is rejected as
\* a replay with a nonce-reuse flag.
C34_WithheldThenReplay ==
    /\ [](Withheld => packet_hash(last.packet) \in nonce_history)
    /\ [][WithheldConsumesNonce]_vars
    /\ [][Submitted /\ Withheld /\ last'.packet = last.packet =>
             /\ last'.verdict = "Nonce reuse detected"
             /\ Flagged("Nonce reuse detected")
             /\ message_buffers' = message_buffers
         ]_vars

\* C34 (amended): the same, the resubmission being rejected as a replay when it
\* is still fresh and still passes the signature and trust-policy checks, and
\* rejected without delivery in every case.
C34_WithheldThenRejected ==
    /\ [](Withheld => packet_hash(last.packet) \in nonce_history)
    /\ [][WithheldConsumesNonce]_vars
    /\ [][Submitted /\ Withheld /\ last'.packet = last.packet =>
             LET p == last.packet IN
             /\ ~last'.result
             /\ last'.verdict # "accepted"
             /\ message_buffers' = message_buffers
             /\ (_verify_packet_signature(p) /\ Fresh(p) /\ ClaimOk(p)) =>
                   /\ last'.verdict = "Nonce reuse detected"
                   /\ Flagged("Nonce reuse detected")
         ]_vars

\* a withheld envelope was submitted again and rejected as a replay: one flag,
\* one key, nothing in any buffer
C34_Witness ==
    /\ calls = 2
    /\ last.op = "route_cognitive_packet"
    /\ last.verdict = "Nonce reuse detected"
    /\ ~apply_critical_reasoning_packet(last.packet).safe
    /\ nonce_history = {packet_hash(last.packet)}
    /\ Len(flags) = 1
    /\ \A b \in DOMAIN message_buffers : message_buffers[b] = <<>>


\* C35: an envelope is rejected as a replay only if an envelope with the same
\* sender_id, nonce and timestamp was accepted before; envelopes that differ in
\* one of the three never share a replay key.
C35_ReplayKeysInjective ==
    [][Submitted /\ last'.verdict = "Nonce reuse detected" =>
          /\ ReplayTriple(last'.packet) \in accepted
          /\ \A triple \in accepted :
                \A q \in Packets :
                    (ReplayTriple(q) = triple /\ triple # ReplayTriple(last'.packet))
                        => packet_hash(q) # packet_hash(last'.packet)
      ]_vars


\* the fields of an envelope the signature is meant to cover, next to the sender
SignedFields(packet) == <<packet.content, packet.timestamp, packet.nonce>>

\* C36: envelopes of one sender with different (content, timestamp, nonce) have
\* different signable strings, so an envelope that passes the signature check
\* carries a signature made for exactly its content, timestamp and nonce.
C36_SignableInjective ==
    [][Submitted /\ last'.verdict \notin {"malformed", "Invalid cryptographic signature"} =>
          LET p == last'.packet IN
          /\ p.signature = SentPacket.signature => SignedFields(p) = SignedFields(SentPacket)
          /\ \A q \in SignablePackets :
                (q.sender_id = p.sender_id /\ SignedFields(q) # SignedFields(p))
                    => signable_content(q) # signable_content(p)
      ]_vars


\* validate_packet calls flag_violation before it returns this verdict
FlagRaising(verdict) == verdict \notin {"malformed", "accepted"}

\* C37: total_violations equals the number of entries of active_flags, and
\* both count the flag-raising rejections: none at the start, one more with
\* every such rejection, and no change with any other step.
C37_ViolationsCountFlags ==
    /\ [](get_verifier_status.total_violations = Len(get_verifier_status.active_flags))
    /\ [](calls = 0 => get_verifier_status.total_violations = 0)
    /\ [][Len(get_verifier_status.active_flags') =
             Len(get_verifier_status.active_flags)
                + (IF Submitted /\ FlagRaising(last'.verdict) THEN 1 ELSE 0)]_vars

\* two submissions, one rejected with a flag and one without: one violation
C37_Witness ==
    /\ calls = 2
    /\ last.verdict = "malformed"
    /\ get_verifier_status.total_violations = 1
    /\ Len(get_verifier_status.active_flags) = 1


\* C38: a packet restored from its wire format has the sender_id, content,
\* timestamp, nonce, signature, routing_path, trust_level and flags of the
\* packet that was written, and is accepted by validate_packet if that was.
C38_WireRoundTrip ==
    wire_call.outcome # "none" =>
        LET p == wire_call.packet
            r == wire_call.restored
        IN /\ wire_call.outcome = "restored"
           /\ r.sender_id = p.sender_id
           /\ r.content = p.content
           /\ r.timestamp = p.timestamp
           /\ r.nonce = p.nonce
           /\ r.signature = p.signature
           /\ r.routing_path = p.routing_path
           /\ r.trust_level = p.trust_level
           /\ r.constitutional_flags = p.constitutional_flags
           /\ (validate_packet(p) = "accepted") => (validate_packet(r) = "accepted")

\* no packet comes back from the wire: from_json_packet raises on every text
\* to_json_packet writes
WireTripRaises ==
    wire_call.outcome \in {"none", "ValueError"}


\* the call names another target than the protected verifier, or fewer than
\* two attacking components
NotCounted(call) ==
    call.target # "autistic_verifier" \/ Len(call.attackers) < 2

\* C39: a check_bypass_attempt call with another target or fewer than two
\* attackers returns no alert and leaves the recorded attempts unchanged; the
\* record holds the other calls only, so no alert carries or counts such a call.
C39_NotCountedLeavesNoTrace ==
    /\ [][MonitorCalled /\ NotCounted(monitor_log'[Len(monitor_log')]) =>
             /\ bypass_attempts' = bypass_attempts
             /\ monitor_log'[Len(monitor_log')].alert = NoAlert
         ]_vars
    /\ [](/\ Len(bypass_attempts)
               = Len(SelectSeq(monitor_log, LAMBDA call : ~NotCounted(call)))
          /\ \A i \in DOMAIN bypass_attempts : ~NotCounted(bypass_attempts[i])
          /\ \A k \in DOMAIN monitor_log :
                monitor_log[k].alert # NoAlert =>
                   \A i \in DOMAIN monitor_log[k].alert.attempts :
                      ~NotCounted(monitor_log[k].alert.attempts[i]))

\* three calls within the hour, the second one with a single attacker: two
\* attempts are on record and the third call returns no alert
C39_Witness ==
    /\ Len(monitor_log) = 3
    /\ ~NotCounted(monitor_log[1])
    /\ NotCounted(monitor_log[2])
    /\ monitor_log[2].target = "autistic_verifier"
    /\ ~NotCounted(monitor_log[3])
    /\ monitor_log[3].timestamp - monitor_log[1].timestamp < AttackWindow
    /\ monitor_log[3].alert = NoAlert
    /\ Len(bypass_attempts) = 2

====
